---- MODULE Spec2Model ----
(***************************************************************************)
(* A model of the Spotify download orchestration (SpotifyDownloader) of    *)
(* the apipi repository, with its pure helpers extractTrackId and          *)
(* extractCookies, and of the quote scraper (AnimeQuoteScraper).           *)
(*                                                                         *)
(* JavaScript strings that the code parses (URLs, cookie entries, tokens)  *)
(* are sequences of one-character strings, so that replace, split and join *)
(* are computed character by character.  Error messages and metadata       *)
(* fields, which the code only copies and concatenates, are TLA+ strings.  *)
(***************************************************************************)
EXTENDS Integers, Sequences, FiniteSets, TLC

VARIABLES
    \* ---- SpotifyDownloader.download, one entry per invocation ----
    callers,    \* the invocations the client makes
    url,        \* the argument of download()
    pc,         \* where the invocation stands
    trackId,    \* const trackId
    pageP,      \* the promise of fetchTrackPage(trackId)
    infoP,      \* the promise of fetchTrackInfo(url)
    allP,       \* the promise of Promise.all([...])
    postP,      \* the promise of downloadTrack(...)
    cookies,    \* const cookies
    csrf,       \* const csrf
    outcome,    \* what download() returned or threw
    requests,   \* history: the outbound requests issued, in order
    stages,     \* history: the stages entered, in order
    settled,    \* history: the fetchers in the order they settled
    caught,     \* history: the error bound by the catch clause
    infoData,   \* history: response.data of the metadata GET, once received
    \* ---- extractTrackId applied to a URL with and without "intl-id/" ----
    urlPlain, urlIntl, idPlain, idIntl,
    \* ---- extractCookies applied to response headers ----
    hdr, cookieOut,
    \* ---- AnimeQuoteScraper, one call of getAllQuotes or getRandomQuote ----
    quotePc,      \* where the call stands
    quoteCall,    \* the method the client called
    quotePageP,   \* the promise of fetchQuotePage()
    quotes,       \* what parseQuotes returned
    randomIndex,  \* history: the index getRandomQuote computed, or -1
    quoteOutcome, \* what the called method returned or threw
    \* ---- YoutubeService, one call of getInfo, downloadContent or downloadToFile ----
    ytPc,         \* where the call stands
    ytCall,       \* the method called and its arguments (none: empty)
    ytExeca,      \* history: the invocations of the external tool
    ytP,          \* the promise of execa("yt-dlp", args)
    ytOutcome,    \* what the promise of the method resolved to (none: empty)
    \* ---- Tiktok.searchVideos, one call ----
    tkPc,         \* where the call stands
    tkQuery,      \* the argument (none: empty)
    tkP,          \* the promise of the POST
    tkOutcome,    \* what searchVideos returned or threw (none: empty)
    \* ---- Translate.batchTranslate, one call ----
    btPc,         \* where the call stands
    btTexts,      \* the argument texts
    btP,          \* promises: one promise of translate() per text
    btAll,        \* the promise of Promise.all(promises)
    btSettled,    \* history: the indices of the texts in the order they settled
    btOutcome,    \* what batchTranslate returned or threw (none: empty)
    \* ---- Translate.getLanguageName and getLanguageCode ----
    lookupCode,   \* the argument of getLanguageName
    lookupName,   \* its result (not called: empty)
    queryName,    \* the argument of getLanguageCode
    queryCode     \* its result (not called: empty)

dlVars == <<callers, url, pc, trackId, pageP, infoP, allP, postP, cookies,
            csrf, outcome, requests, stages, settled, caught, infoData>>
urlVars == <<urlPlain, urlIntl, idPlain, idIntl>>
cookieVars == <<hdr, cookieOut>>
quoteVars == <<quotePc, quoteCall, quotePageP, quotes, randomIndex, quoteOutcome>>
ytVars == <<ytPc, ytCall, ytExeca, ytP, ytOutcome>>
tkVars == <<tkPc, tkQuery, tkP, tkOutcome>>
btVars == <<btPc, btTexts, btP, btAll, btSettled, btOutcome>>
langVars == <<lookupCode, lookupName, queryName, queryCode>>
vars == <<dlVars, urlVars, cookieVars, quoteVars, ytVars, tkVars, btVars, langVars>>

(***************************************************************************)
(* JavaScript values                                                       *)
(***************************************************************************)

\* An Error object: its class name and message.  isError is what
\* `error instanceof Error` evaluates to.
MkError(name, message) == [name |-> name, message |-> message, isError |-> TRUE]

\* No error (the filler of a slot that holds no error).
NoError == [name |-> "", message |-> "", isError |-> FALSE]

\* The result of evaluating an expression that may throw.
Ok(v) == [done |-> TRUE, ok |-> TRUE, value |-> v, error |-> NoError]
Threw(e) == [done |-> TRUE, ok |-> FALSE, value |-> <<>>, error |-> e]
NotRun == [done |-> FALSE, ok |-> FALSE, value |-> <<>>, error |-> NoError]

\* undefined, where a string was expected.  No string of characters equals
\* it: its one element is not a single character.
Undefined == <<"undefined">>

\* The TypeError V8 raises for a property read on undefined or null.
TypeErrorReading(what, prop) ==
    MkError("TypeError",
            "Cannot read properties of " \o what \o " (reading '" \o prop \o "')")

(***************************************************************************)
(* String.prototype.indexOf / replace / split and Array.prototype.join     *)
(***************************************************************************)

\* pat occurs in s at position i (1-based).
OccursAt(s, pat, i) ==
    /\ i >= 1
    /\ i + Len(pat) - 1 <= Len(s)
    /\ SubSeq(s, i, i + Len(pat) - 1) = pat

\* The position of the first occurrence of pat in s, 0 when there is none.
IndexOf(s, pat) ==
    LET hits == {i \in 1..Len(s) : OccursAt(s, pat, i)}
    IN  IF hits = {} THEN 0 ELSE CHOOSE i \in hits : \A j \in hits : i <= j

\* s.replace(pat, rep) with a string pattern: the first occurrence only.
Replace(s, pat, rep) ==
    LET i == IndexOf(s, pat)
    IN  IF i = 0 THEN s
        ELSE SubSeq(s, 1, i - 1) \o rep \o SubSeq(s, i + Len(pat), Len(s))

\* s.split(sep), sep not empty: the pieces between the occurrences of sep.
RECURSIVE Split(_, _)
Split(s, sep) ==
    LET i == IndexOf(s, sep)
    IN  IF i = 0 THEN <<s>>
        ELSE <<SubSeq(s, 1, i - 1)>> \o Split(SubSeq(s, i + Len(sep), Len(s)), sep)

\* parts.join(sep).
RECURSIVE Join(_, _)
Join(parts, sep) ==
    IF Len(parts) = 0 THEN <<>>
    ELSE IF Len(parts) = 1 THEN parts[1]
    ELSE Join(SubSeq(parts, 1, Len(parts) - 1), sep) \o sep \o parts[Len(parts)]

(***************************************************************************)
(* SpotifyDownloader.extractTrackId                                        *)
(***************************************************************************)

IntlIdSegment == <<"i","n","t","l","-","i","d","/">>
TrackMarker == <<"t","r","a","c","k","/">>
QuestionMark == <<"?">>

\* Variant: the locale segment is not removed before splitting.
extractTrackId_noReplace(u) ==
    LET parts == Split(u, TrackMarker)
    IN  IF Len(parts) < 2
        THEN Threw(TypeErrorReading("undefined", "split"))
        ELSE Ok(Split(parts[2], QuestionMark)[1])

\* url.replace("intl-id/", "").split("track/")[1].split("?")[0]: without the
\* marker, split("track/")[1] is undefined and .split throws a TypeError.
extractTrackId(u) ==
    LET cleanUrl == Replace(u, IntlIdSegment, <<>>)
        parts == Split(cleanUrl, TrackMarker)
    IN  IF Len(parts) < 2
        THEN Threw(TypeErrorReading("undefined", "split"))
        ELSE Ok(Split(parts[2], QuestionMark)[1])

(***************************************************************************)
(* SpotifyDownloader.extractCookies                                        *)
(***************************************************************************)

Semicolon == <<";">>
CookieSeparator == <<";"," ">>

\* headers["set-cookie"] is absent, or an array of entries.
Headers(present, entries) == [present |-> present, entries |-> entries]

\* Variant: the fragments are joined with ";" alone.
extractCookies_joinNoSpace(headers) ==
    IF ~headers.present THEN <<>>
    ELSE Join([i \in 1..Len(headers.entries) |->
                  Split(headers.entries[i], Semicolon)[1]], Semicolon)

\* Variant: without the header the result is undefined, not "".
extractCookies_absentUndefined(headers) ==
    IF ~headers.present THEN Undefined
    ELSE Join([i \in 1..Len(headers.entries) |->
                  Split(headers.entries[i], Semicolon)[1]], CookieSeparator)

\* if (!setCookieHeader) return ""; otherwise
\* setCookieHeader.map(cookie => cookie.split(";")[0]).join("; ")
extractCookies(headers) ==
    IF ~headers.present THEN <<>>
    ELSE Join([i \in 1..Len(headers.entries) |->
                  Split(headers.entries[i], Semicolon)[1]], CookieSeparator)

(***************************************************************************)
(* SpotifyDownloader.extractCsrfToken                                      *)
(***************************************************************************)

\* An HTML document, as far as the selector meta[name="csrf-token"] sees it:
\* whether the element exists, whether it has a content attribute, and the
\* attribute's value.
Html(meta, hasContent, content) ==
    [meta |-> meta, hasContent |-> hasContent, content |-> content]

\* Variant: the token read for the first invocation is kept by the downloader
\* and handed to every later extraction.
extractCsrfToken_cached(html) ==
    IF csrf["r1"] # Undefined THEN csrf["r1"]
    ELSE IF html.meta /\ html.hasContent THEN html.content ELSE Undefined

\* cheerio.load(html)('meta[name="csrf-token"]').attr("content"): undefined
\* when no element matches or the element has no such attribute.
extractCsrfToken(html) ==
    IF html.meta /\ html.hasContent THEN html.content ELSE Undefined

\* !csrf: undefined and the empty string are falsy.
Falsy(s) == s = Undefined \/ s = <<>>

(***************************************************************************)
(* Promises                                                                *)
(***************************************************************************)

NoPromise(filler) == [state |-> "none", value |-> filler, reason |-> NoError]
Pending(filler) == [state |-> "pending", value |-> filler, reason |-> NoError]
Fulfilled(v) == [state |-> "fulfilled", value |-> v, reason |-> NoError]
Rejected(filler, e) == [state |-> "rejected", value |-> filler, reason |-> e]

\* Variant: the join rejects only once the other input has settled.
PromiseAll_waitsForOther(all, other, reason) ==
    IF all.state = "pending" /\ other.state # "pending"
    THEN Rejected(<<>>, reason) ELSE all

\* Promise.all([...]) when one of its inputs rejects: it rejects with that
\* reason if it has not settled yet, whatever the state of the other input.
PromiseAll_onReject(all, other, reason) ==
    IF all.state = "pending" THEN Rejected(<<>>, reason) ELSE all

\* Variant: the join fulfils with the first input that fulfils.
PromiseAll_firstFulfilWins(all, other) ==
    IF all.state = "pending" THEN Fulfilled(<<>>) ELSE all

\* Promise.all([...]) when one of its two inputs fulfils: it fulfils once the
\* other input has fulfilled too.
PromiseAll_onFulfil(all, other) ==
    IF all.state = "pending" /\ other.state = "fulfilled"
    THEN Fulfilled(<<>>) ELSE all

(***************************************************************************)
(* The remote services: what they may answer                                *)
(***************************************************************************)

Runs == {"r1", "r2"}

SpotifyHost ==
    <<"h","t","t","p","s",":","/","/","o","p","e","n",".","s","p","o","t","i","f","y",".","c","o","m","/">>
TrackAbc == <<"A","B","C","1","2","3">>
QuerySi == <<"?","s","i","=","x","y","z">>

TrackShapeOfYou ==
    <<"4","i","V","5","W","9","u","Y","E","d","Y","U","V","a","7","9","A","x","b","7","R","h">>

\* The URLs the client passes to download(): a track URL with a query, one
\* with the locale segment, an album URL (no "track/"), a URL in which
\* "intl-id/" stands inside the letters of "track/", and the URL of the
\* documentation's example track.
UrlTrack == SpotifyHost \o TrackMarker \o TrackAbc \o QuerySi
UrlIntlTrack == SpotifyHost \o IntlIdSegment \o TrackMarker \o TrackAbc
UrlAlbum == SpotifyHost \o <<"a","l","b","u","m","/">> \o TrackAbc
UrlSplitMarker ==
    SpotifyHost \o <<"t","r">> \o IntlIdSegment \o <<"a","c","k","/">> \o TrackAbc
UrlShapeOfYou == SpotifyHost \o TrackMarker \o TrackShapeOfYou
DownloadUrls == {UrlTrack, UrlIntlTrack, UrlAlbum, UrlSplitMarker, UrlShapeOfYou}

SessionCookieEntry ==
    <<"s","e","s","s","i","o","n","=","a","b","c",";"," ","P","a","t","h","=","/">>
TokenCookieEntry ==
    <<"t","o","k","e","n","=","x","y","z",";"," ","H","t","t","p","O","n","l","y">>
Tok123 == <<"t","o","k","1","2","3">>

\* The intermediary page: without set-cookie, or with one or two entries, and with the csrf meta
\* tag present with a token, present with an empty content, present without
\* the attribute, or absent.
PageHeaders ==
    {Headers(FALSE, <<>>), Headers(TRUE, <<SessionCookieEntry>>),
     Headers(TRUE, <<SessionCookieEntry, TokenCookieEntry>>)}
PageBodies ==
    {Html(FALSE, FALSE, <<>>), Html(TRUE, FALSE, <<>>),
     Html(TRUE, TRUE, <<>>), Html(TRUE, TRUE, Tok123)}
PageResponses == [headers : PageHeaders, data : PageBodies]
NoResponse == [headers |-> Headers(FALSE, <<>>), data |-> Html(FALSE, FALSE, <<>>)]

\* InfoSpotify, or undefined.
UndefinedInfo ==
    [def |-> FALSE, id |-> "", name |-> "", artists |-> "", image |-> "",
     duration_ms |-> 0]
ShapeOfYou ==
    [def |-> TRUE, id |-> "4iV5W9uYEdYUVa79Axb7Rh", name |-> "Shape of You",
     artists |-> "Ed Sheeran", image |-> "https://img/x.jpg",
     duration_ms |-> 233713]

\* The body of the metadata API's 2xx response: null, an envelope without
\* result, or an envelope with result.
InfoBody(isNull, hasResult, result) ==
    [isNull |-> isNull, hasResult |-> hasResult, result |-> result]
InfoBodies ==
    {InfoBody(TRUE, FALSE, UndefinedInfo), InfoBody(FALSE, FALSE, UndefinedInfo),
     InfoBody(FALSE, TRUE, ShapeOfYou)}

\* DownSpotify as the convert endpoint sends it: erorr true, false or absent;
\* url a string (maybe empty) or absent.
JsStr(s) == [def |-> TRUE, s |-> s]
JsNoStr == [def |-> FALSE, s |-> ""]
DownSpotify(hasErorr, erorr, u) == [hasErorr |-> hasErorr, erorr |-> erorr, url |-> u]
CdnUrl == JsStr("https://cdn/x.mp3")
PostBodies ==
    {DownSpotify(TRUE, TRUE, CdnUrl), DownSpotify(TRUE, TRUE, JsStr("")),
     DownSpotify(TRUE, FALSE, CdnUrl), DownSpotify(TRUE, FALSE, JsStr("")),
     DownSpotify(FALSE, FALSE, CdnUrl), DownSpotify(TRUE, FALSE, JsNoStr)}
NoData == DownSpotify(FALSE, FALSE, JsNoStr)

\* The errors axios rejects with: always instances of Error (AxiosError).
AxiosError(message) == MkError("AxiosError", message)
PageErrors == {AxiosError("Request failed with status code 404")}
InfoErrors == {AxiosError("Request failed with status code 500")}
PostErrors == {AxiosError("Request failed with status code 419"),
               AxiosError("Network Error")}

(***************************************************************************)
(* The requests download() sends                                           *)
(***************************************************************************)

BaseUrl == <<"h","t","t","p","s",":","/","/","s","p","o","w","l","o","a","d",".","c","o","m">>
ApiUrl ==
    <<"h","t","t","p","s",":","/","/","a","p","i",".","f","a","b","d","l",".","c","o","m","/","s","p","o","t","i","f","y","/","g","e","t">>

NoBody == [urls |-> <<>>, cover |-> ""]
NoAuth == [csrfToken |-> <<>>, cookie |-> <<>>]

\* axios.get(`${this.baseUrl}/spotify/track-${trackId}`, {withCredentials: true})
fetchTrackPage(id) ==
    [name |-> "fetchTrackPage", method |-> "GET",
     url |-> BaseUrl \o <<"/","s","p","o","t","i","f","y","/","t","r","a","c","k","-">> \o id,
     withCredentials |-> TRUE, body |-> NoBody, auth |-> NoAuth]

\* axios.get(`${this.apiUrl}?url=${url}`)
fetchTrackInfo(u) ==
    [name |-> "fetchTrackInfo", method |-> "GET",
     url |-> ApiUrl \o <<"?","u","r","l","=">> \o u,
     withCredentials |-> FALSE, body |-> NoBody, auth |-> NoAuth]

\* Variant: the token and the cookie string change places in the headers.
downloadTrack_swapped(id, imageUrl, token, cookie) ==
    [name |-> "downloadTrack", method |-> "POST",
     url |-> BaseUrl \o <<"/","c","o","n","v","e","r","t">>,
     withCredentials |-> FALSE,
     body |-> [urls |-> SpotifyHost \o TrackMarker \o id, cover |-> imageUrl],
     auth |-> [csrfToken |-> cookie, cookie |-> token]]

\* axios.post(`${this.baseUrl}/convert`, {urls, cover}, {headers})
downloadTrack(id, imageUrl, token, cookie) ==
    [name |-> "downloadTrack", method |-> "POST",
     url |-> BaseUrl \o <<"/","c","o","n","v","e","r","t">>,
     withCredentials |-> FALSE,
     body |-> [urls |-> SpotifyHost \o TrackMarker \o id, cover |-> imageUrl],
     auth |-> [csrfToken |-> token, cookie |-> cookie]]

\* return response.data.result, after the metadata GET resolved with `body`:
\* reading .result of null throws, and the async function rejects.
fetchTrackInfo_result(body) ==
    IF body.isNull THEN Rejected(UndefinedInfo, TypeErrorReading("null", "result"))
    ELSE Fulfilled(IF body.hasResult THEN body.result ELSE UndefinedInfo)

(***************************************************************************)
(* SpotifyDownloader.download                                              *)
(***************************************************************************)

ErrorPrefix == "Failed to download Spotify track: "

\* Variant: the caught error is thrown again as it is.
WrapError_rethrowRaw(e) == e

\* new Error(`Failed to download Spotify track: ${error instanceof Error ?
\* error.message : "Unknown error"}`)
WrapError(e) ==
    MkError("Error", ErrorPrefix \o (IF e.isError THEN e.message ELSE "Unknown error"))

NoOutcome == [kind |-> "none", info |-> UndefinedInfo, url |-> JsNoStr, error |-> NoError]
Returned(info, u) == [kind |-> "returned", info |-> info, url |-> u, error |-> NoError]
Thrown(e) == [kind |-> "thrown", info |-> UndefinedInfo, url |-> JsNoStr, error |-> e]

\* The part of an invocation's state that its continuations change.
Local(r) ==
    [pc |-> pc[r], trackId |-> trackId[r], cookies |-> cookies[r], csrf |-> csrf[r],
     postP |-> postP[r], outcome |-> outcome[r], requests |-> requests[r],
     stages |-> stages[r], caught |-> caught[r]]

Commit(r, L) ==
    /\ pc' = [pc EXCEPT ![r] = L.pc]
    /\ cookies' = [cookies EXCEPT ![r] = L.cookies]
    /\ csrf' = [csrf EXCEPT ![r] = L.csrf]
    /\ postP' = [postP EXCEPT ![r] = L.postP]
    /\ outcome' = [outcome EXCEPT ![r] = L.outcome]
    /\ requests' = [requests EXCEPT ![r] = L.requests]
    /\ stages' = [stages EXCEPT ![r] = L.stages]
    /\ caught' = [caught EXCEPT ![r] = L.caught]

\* Variant: a rejected authorize POST is sent once more before giving up.
Catch_retryPost(L, e) ==
    IF L.pc = "Authorizing" /\ Len(L.requests) = 3
    THEN [L EXCEPT !.postP = Pending(NoData),
                   !.requests = Append(@, L.requests[3])]
    ELSE [L EXCEPT !.pc = "Failed", !.caught = e, !.outcome = Thrown(WrapError(e)),
                   !.stages = Append(@, "Failed")]

\* catch (error) { throw new Error(...) }
Catch(L, e) ==
    [L EXCEPT !.pc = "Failed", !.caught = e, !.outcome = Thrown(WrapError(e)),
              !.stages = Append(@, "Failed")]

\* Variant: the token is never checked.
CsrfMissing_never(token) == FALSE

\* Variant: only an undefined token counts as missing.
CsrfMissing_onlyUndefined(token) == token = Undefined

\* if (!csrf) throw new Error("CSRF token not found")
CsrfMissing(token) == Falsy(token)

\* After await Promise.all fulfilled: extract the session, check the token,
\* read trackInfo.image and call downloadTrack.
AfterFetch(L, pageResponse, trackInfo) ==
    LET ck == extractCookies(pageResponse.headers)
        tk == extractCsrfToken(pageResponse.data)
        L1 == [L EXCEPT !.cookies = ck, !.csrf = tk,
                        !.stages = Append(@, "ExtractingSession")]
    IN  IF CsrfMissing(tk)
        THEN Catch(L1, MkError("Error", "CSRF token not found"))
        ELSE IF ~trackInfo.def
        THEN Catch(L1, TypeErrorReading("undefined", "image"))
        ELSE [L1 EXCEPT !.pc = "Authorizing",
                        !.postP = Pending(NoData),
                        !.requests = Append(@, downloadTrack(L.trackId, trackInfo.image, tk, ck)),
                        !.stages = Append(@, "Authorizing")]

\* Variant: download() waits for the page fetch alone.
JoinSettled_pageOnly(all, page) == page.state # "pending"

\* await Promise.all([...]) resumes once that promise has settled.
JoinSettled(all, page) == all.state # "pending"

\* The continuation of `await Promise.all([...])`, run when that promise has
\* settled and download() is still waiting for it.
ResumeJoin(L, page, info, all) ==
    IF L.pc # "FetchingConcurrently" \/ ~JoinSettled(all, page) THEN L
    ELSE IF all.state = "rejected" THEN Catch(L, all.reason)
    ELSE AfterFetch(L, page.value, info.value)

\* Variant: the url is tested instead of the flag.
ErorrSet_checksUrl(data) == ~data.url.def \/ data.url.s = ""

\* if (downloadResult.erorr) throw new Error("Data not found")
ErorrSet(data) == data.hasErorr /\ data.erorr

\* Variant: the result's url is the cover image of the metadata.
AfterAuthorize_returnsCover(L, trackInfo, data) ==
    IF ErorrSet(data)
    THEN Catch(L, MkError("Error", "Data not found"))
    ELSE [L EXCEPT !.pc = "Done", !.outcome = Returned(trackInfo, JsStr(trackInfo.image)),
                   !.stages = Append(@, "Done")]

\* The continuation of `await this.downloadTrack(...)` when it fulfilled.
AfterAuthorize(L, trackInfo, data) ==
    IF ErorrSet(data)
    THEN Catch(L, MkError("Error", "Data not found"))
    ELSE [L EXCEPT !.pc = "Done", !.outcome = Returned(trackInfo, data.url),
                   !.stages = Append(@, "Done")]

(***************************************************************************)
(* AnimeQuoteScraper: parsing the quote feed                               *)
(***************************************************************************)

QuoteBaseUrl ==
    <<"h","t","t","p","s",":","/","/","o","t","a","k","o","t","a","k","u",".","c","o","m">>
QuoteFeedUrl == QuoteBaseUrl \o <<"/","q","u","o","t","e","/","f","e","e","d">>

\* The characters String.prototype.trim removes, as far as the pages use them.
WhiteSpace == {" ", "\t", "\n"}

\* s.trim()
trim(s) ==
    LET keep == {i \in 1..Len(s) : s[i] \notin WhiteSpace}
    IN  IF keep = {} THEN <<>>
        ELSE SubSeq(s, CHOOSE i \in keep : \A j \in keep : i <= j,
                       CHOOSE i \in keep : \A j \in keep : j <= i)

\* s.startsWith(prefix)
startsWith(s, prefix) ==
    Len(s) >= Len(prefix) /\ SubSeq(s, 1, Len(prefix)) = prefix

\* One .kotodama-list element as the selectors of extractQuoteData see it:
\* the text of .char-name, .anime-title, .meta and .quote ("" when nothing
\* matches, as cheerio's text() gives), and the attributes data-src of
\* .char-img img and href of a.kuroi (undefined when the element or the
\* attribute is missing).
QuoteBlock(charName, animeTitle, meta, quoteText, dataSrc, href) ==
    [charName |-> charName, animeTitle |-> animeTitle, meta |-> meta,
     quoteText |-> quoteText, dataSrc |-> dataSrc, href |-> href]

\* IAnimeQuote, and Partial<IAnimeQuote> as extractQuoteData builds it.
AnimeQuote(character, anime, episode, quote, image, link) ==
    [character |-> character, anime |-> anime, episode |-> episode,
     quote |-> quote, image |-> image, link |-> link]

extractQuoteData(element) ==
    AnimeQuote(trim(element.charName), trim(element.animeTitle),
               trim(element.meta), trim(element.quoteText),
               element.dataSrc, element.href)

\* Variant: a record without a link is accepted too.
isValidQuote_ignoresLink(quoteData) ==
    /\ ~Falsy(quoteData.character)
    /\ ~Falsy(quoteData.anime)
    /\ ~Falsy(quoteData.quote)

\* !!(character && anime && quote && link)
isValidQuote(quoteData) ==
    /\ ~Falsy(quoteData.character)
    /\ ~Falsy(quoteData.anime)
    /\ ~Falsy(quoteData.quote)
    /\ ~Falsy(quoteData.link)

HttpPrefix == <<"h","t","t","p">>

\* relativePath.startsWith("http") ? relativePath : `${this.baseUrl}${relativePath}`
buildFullUrl(relativePath) ==
    IF startsWith(relativePath, HttpPrefix) THEN relativePath
    ELSE QuoteBaseUrl \o relativePath

UnknownEpisode == <<"U","n","k","n","o","w","n">>

\* Variant: the episode is passed through as extracted.
normalizeQuoteData_keepsEpisode(quoteData) ==
    AnimeQuote(quoteData.character, quoteData.anime, quoteData.episode,
               quoteData.quote, quoteData.image, buildFullUrl(quoteData.link))

\* episode: quoteData.episode || "Unknown"; image is passed through; the
\* link goes through buildFullUrl.
normalizeQuoteData(quoteData) ==
    AnimeQuote(quoteData.character, quoteData.anime,
               IF Falsy(quoteData.episode) THEN UnknownEpisode ELSE quoteData.episode,
               quoteData.quote, quoteData.image, buildFullUrl(quoteData.link))

\* Variant: each new record is put in front of the earlier ones.
RECURSIVE parseQuotes_unshift(_)
parseQuotes_unshift(html) ==
    IF Len(html) = 0 THEN <<>>
    ELSE LET quoteData == extractQuoteData(Head(html))
         IN  parseQuotes_unshift(Tail(html))
             \o (IF isValidQuote(quoteData) THEN <<normalizeQuoteData(quoteData)>> ELSE <<>>)

\* $(".kotodama-list").each(...): the elements in document order; each valid
\* one pushes its normalized record. `html` is the sequence of the page's
\* .kotodama-list elements.
RECURSIVE parseQuotes(_)
parseQuotes(html) ==
    IF Len(html) = 0 THEN <<>>
    ELSE LET quoteData == extractQuoteData(Head(html))
         IN  (IF isValidQuote(quoteData) THEN <<normalizeQuoteData(quoteData)>> ELSE <<>>)
             \o parseQuotes(Tail(html))

(***************************************************************************)
(* AnimeQuoteScraper: getAllQuotes and getRandomQuote                      *)
(***************************************************************************)

\* An error object of the scraper's world: an AxiosError (with the response
\* it may carry) or a ScrapingException (with statusCode and originalError).
\* An absent response, statusCode or originalError is the empty sequence.
QuoteError(name, message, isAxiosError, response, statusCode, originalError) ==
    [name |-> name, message |-> message, isError |-> TRUE,
     isAxiosError |-> isAxiosError, response |-> response,
     statusCode |-> statusCode, originalError |-> originalError]
NoQuoteError ==
    [name |-> "", message |-> "", isError |-> FALSE, isAxiosError |-> FALSE,
     response |-> <<>>, statusCode |-> <<>>, originalError |-> <<>>]

\* What axios rejects with: error.response is set when a response arrived.
QuoteAxiosError(message, response) ==
    QuoteError("AxiosError", message, TRUE, response, <<>>, <<>>)

\* new ScrapingException(message, statusCode, originalError)
ScrapingException(message, statusCode, originalError) ==
    QuoteError("ScrapingException", message, FALSE, <<>>, statusCode, <<originalError>>)

\* error instanceof Error ? error : new Error(String(error))
AsError(error) ==
    IF error.isError THEN error
    ELSE QuoteError("Error", error.message, FALSE, <<>>, <<>>, <<>>)

\* Variant: the status of the response is not passed on.
getAllQuotes_catch_noStatus(error) ==
    IF error.isAxiosError
    THEN ScrapingException("HTTP request failed: " \o error.message, <<>>, error)
    ELSE ScrapingException("Unexpected error occurred while fetching quotes",
                           <<>>, AsError(error))

\* The catch clause of getAllQuotes.
getAllQuotes_catch(error) ==
    IF error.isAxiosError
    THEN ScrapingException("HTTP request failed: " \o error.message,
                           IF error.response = <<>> THEN <<>>
                           ELSE <<error.response[1].status>>,
                           error)
    ELSE ScrapingException("Unexpected error occurred while fetching quotes",
                           <<>>, AsError(error))

\* Variant: the outer exception takes over the status of the inner one.
getRandomQuote_catch_keepsStatus(error) ==
    ScrapingException("Failed to get random quote", error.statusCode, AsError(error))

\* The catch clause of getRandomQuote.
getRandomQuote_catch(error) ==
    ScrapingException("Failed to get random quote", <<>>, AsError(error))

NoQuoteOutcome == [kind |-> "none", value |-> <<>>, error |-> NoQuoteError]
\* kind "list": value is the array returned; kind "quote": value holds the
\* element returned (nothing for undefined); kind "null": null was returned.
QuoteReturned(kind, value) == [kind |-> kind, value |-> value, error |-> NoQuoteError]
QuoteThrown(e) == [kind |-> "thrown", value |-> <<>>, error |-> e]

(***************************************************************************)
(* Actions of download(): the call, and the arrival of each response       *)
(***************************************************************************)

\* Variant: the metadata fetcher is not called before the await.
Start_pageOnly(r, u) ==
    /\ r \in callers
    /\ pc[r] = "Idle"
    /\ url' = [url EXCEPT ![r] = u]
    /\ settled' = settled
    /\ LET id == extractTrackId(u)
           L0 == [Local(r) EXCEPT !.stages = <<"ExtractingId">>]
       IN  IF ~id.ok
           THEN /\ Commit(r, Catch(L0, id.error))
                /\ UNCHANGED <<trackId, pageP, infoP, allP>>
           ELSE /\ trackId' = [trackId EXCEPT ![r] = id.value]
                /\ pageP' = [pageP EXCEPT ![r] = Pending(NoResponse)]
                /\ infoP' = [infoP EXCEPT ![r] = Pending(UndefinedInfo)]
                /\ allP' = [allP EXCEPT ![r] = Pending(<<>>)]
                /\ Commit(r, [L0 EXCEPT
                       !.pc = "FetchingConcurrently",
                       !.requests = <<fetchTrackPage(id.value)>>,
                       !.stages = Append(@, "FetchingConcurrently")])
    /\ UNCHANGED <<callers, infoData, urlVars, cookieVars, quoteVars,
                   ytVars, tkVars, btVars, langVars>>

\* download(url) up to its first await: extractTrackId, then both fetchers
\* are called (each sends its GET) and Promise.all is awaited.
Start(r, u) ==
    /\ r \in callers
    /\ pc[r] = "Idle"
    /\ url' = [url EXCEPT ![r] = u]
    /\ settled' = settled
    /\ LET id == extractTrackId(u)
           L0 == [Local(r) EXCEPT !.stages = <<"ExtractingId">>]
       IN  IF ~id.ok
           THEN /\ Commit(r, Catch(L0, id.error))
                /\ UNCHANGED <<trackId, pageP, infoP, allP>>
           ELSE /\ trackId' = [trackId EXCEPT ![r] = id.value]
                /\ pageP' = [pageP EXCEPT ![r] = Pending(NoResponse)]
                /\ infoP' = [infoP EXCEPT ![r] = Pending(UndefinedInfo)]
                /\ allP' = [allP EXCEPT ![r] = Pending(<<>>)]
                /\ Commit(r, [L0 EXCEPT
                       !.pc = "FetchingConcurrently",
                       !.requests = <<fetchTrackPage(id.value), fetchTrackInfo(u)>>,
                       !.stages = Append(@, "FetchingConcurrently")])
    /\ UNCHANGED <<callers, infoData, urlVars, cookieVars, quoteVars,
                   ytVars, tkVars, btVars, langVars>>

\* The intermediary page's GET resolves with a 2xx response.
PageResolves(r, resp) ==
    /\ pageP[r].state = "pending"
    /\ LET pg == Fulfilled(resp)
           all == PromiseAll_onFulfil(allP[r], infoP[r])
       IN  /\ pageP' = [pageP EXCEPT ![r] = pg]
           /\ allP' = [allP EXCEPT ![r] = all]
           /\ Commit(r, ResumeJoin(Local(r), pg, infoP[r], all))
    /\ settled' = [settled EXCEPT ![r] = Append(@, "page")]
    /\ UNCHANGED <<callers, url, trackId, infoP, infoData, urlVars, cookieVars, quoteVars,
                   ytVars, tkVars, btVars, langVars>>

\* The intermediary page's GET rejects (non-2xx or transport failure).
PageRejects(r, e) ==
    /\ pageP[r].state = "pending"
    /\ LET pg == Rejected(NoResponse, e)
           all == PromiseAll_onReject(allP[r], infoP[r], e)
       IN  /\ pageP' = [pageP EXCEPT ![r] = pg]
           /\ allP' = [allP EXCEPT ![r] = all]
           /\ Commit(r, ResumeJoin(Local(r), pg, infoP[r], all))
    /\ settled' = [settled EXCEPT ![r] = Append(@, "page")]
    /\ UNCHANGED <<callers, url, trackId, infoP, infoData, urlVars, cookieVars, quoteVars,
                   ytVars, tkVars, btVars, langVars>>

\* The metadata GET resolves with a 2xx response whose data is `body`;
\* fetchTrackInfo unwraps it.
InfoResponds(r, body) ==
    /\ infoP[r].state = "pending"
    /\ LET inf == fetchTrackInfo_result(body)
           all == IF inf.state = "fulfilled"
                  THEN PromiseAll_onFulfil(allP[r], pageP[r])
                  ELSE PromiseAll_onReject(allP[r], pageP[r], inf.reason)
       IN  /\ infoP' = [infoP EXCEPT ![r] = inf]
           /\ allP' = [allP EXCEPT ![r] = all]
           /\ Commit(r, ResumeJoin(Local(r), pageP[r], inf, all))
    /\ settled' = [settled EXCEPT ![r] = Append(@, "info")]
    /\ infoData' = [infoData EXCEPT ![r] = <<body>>]
    /\ UNCHANGED <<callers, url, trackId, pageP, urlVars, cookieVars, quoteVars,
                   ytVars, tkVars, btVars, langVars>>

\* The metadata GET rejects (non-2xx or transport failure).
InfoRejects(r, e) ==
    /\ infoP[r].state = "pending"
    /\ LET inf == Rejected(UndefinedInfo, e)
           all == PromiseAll_onReject(allP[r], pageP[r], e)
       IN  /\ infoP' = [infoP EXCEPT ![r] = inf]
           /\ allP' = [allP EXCEPT ![r] = all]
           /\ Commit(r, ResumeJoin(Local(r), pageP[r], inf, all))
    /\ settled' = [settled EXCEPT ![r] = Append(@, "info")]
    /\ UNCHANGED <<callers, url, trackId, pageP, infoData, urlVars, cookieVars, quoteVars,
                   ytVars, tkVars, btVars, langVars>>

\* The authorize POST resolves with a 2xx response whose data is `data`.
PostResponds(r, data) ==
    /\ postP[r].state = "pending"
    /\ Commit(r, AfterAuthorize([Local(r) EXCEPT !.postP = Fulfilled(data)],
                                infoP[r].value, data))
    /\ UNCHANGED <<callers, url, trackId, pageP, infoP, allP, settled, infoData,
                   urlVars, cookieVars, quoteVars,
                   ytVars, tkVars, btVars, langVars>>

\* The authorize POST rejects.
PostRejects(r, e) ==
    /\ postP[r].state = "pending"
    /\ Commit(r, Catch([Local(r) EXCEPT !.postP = Rejected(NoData, e)], e))
    /\ UNCHANGED <<callers, url, trackId, pageP, infoP, allP, settled, infoData,
                   urlVars, cookieVars, quoteVars,
                   ytVars, tkVars, btVars, langVars>>

\* No invocation has been made.
DownloadIdle ==
    /\ url = [r \in Runs |-> <<>>]
    /\ pc = [r \in Runs |-> "Idle"]
    /\ trackId = [r \in Runs |-> <<>>]
    /\ pageP = [r \in Runs |-> NoPromise(NoResponse)]
    /\ infoP = [r \in Runs |-> NoPromise(UndefinedInfo)]
    /\ allP = [r \in Runs |-> NoPromise(<<>>)]
    /\ postP = [r \in Runs |-> NoPromise(NoData)]
    /\ cookies = [r \in Runs |-> <<>>]
    /\ csrf = [r \in Runs |-> Undefined]
    /\ outcome = [r \in Runs |-> NoOutcome]
    /\ requests = [r \in Runs |-> <<>>]
    /\ stages = [r \in Runs |-> <<>>]
    /\ settled = [r \in Runs |-> <<>>]
    /\ caught = [r \in Runs |-> NoError]
    /\ infoData = [r \in Runs |-> <<>>]

UrlIdle == urlPlain = <<>> /\ urlIntl = <<>> /\ idPlain = NotRun /\ idIntl = NotRun
CookiesIdle == hdr = Headers(FALSE, <<>>) /\ cookieOut = Undefined

\* Neither method of the scraper has been called.
QuotesIdle ==
    /\ quotePc = "Idle"
    /\ quoteCall = "none"
    /\ quotePageP = NoPromise(<<>>)
    /\ quotes = <<>>
    /\ randomIndex = -1
    /\ quoteOutcome = NoQuoteOutcome

\* No method of the YouTube service has been called.
YoutubeIdle ==
    /\ ytPc = "Idle"
    /\ ytCall = <<>>
    /\ ytExeca = <<>>
    /\ ytP = NoPromise("")
    /\ ytOutcome = <<>>

\* searchVideos has not been called.
TiktokIdle ==
    /\ tkPc = "Idle"
    /\ tkQuery = <<>>
    /\ tkP = NoPromise(<<>>)
    /\ tkOutcome = <<>>

\* batchTranslate has not been called.
BatchIdle ==
    /\ btPc = "Idle"
    /\ btTexts = <<>>
    /\ btP = <<>>
    /\ btAll = NoPromise(<<>>)
    /\ btSettled = <<>>
    /\ btOutcome = <<>>

\* Neither lookup has been made.
LangIdle ==
    /\ lookupCode = ""
    /\ lookupName = <<>>
    /\ queryName = <<>>
    /\ queryCode = <<>>

\* One client calling download() once.
Init == callers = {"r1"} /\ DownloadIdle /\ UrlIdle /\ CookiesIdle /\ QuotesIdle /\ YoutubeIdle /\ TiktokIdle /\ BatchIdle /\ LangIdle

Next ==
    \E r \in Runs :
        \/ \E u \in DownloadUrls : Start(r, u)
        \/ \E resp \in PageResponses : PageResolves(r, resp)
        \/ \E e \in PageErrors : PageRejects(r, e)
        \/ \E body \in InfoBodies : InfoResponds(r, body)
        \/ \E e \in InfoErrors : InfoRejects(r, e)
        \/ \E data \in PostBodies : PostResponds(r, data)
        \/ \E e \in PostErrors : PostRejects(r, e)

Spec == Init /\ [][Next]_vars

(***************************************************************************)
(* Two invocations of download(), concurrent or one after the other; each  *)
(* is answered from a menu in which every answer comes in two kinds, so    *)
(* that what one invocation receives can differ from what the other does   *)
(***************************************************************************)

Tok456 == <<"t","o","k","4","5","6">>
Perfect ==
    [def |-> TRUE, id |-> "0tgVpDi06FyKpA1z0VMD4v", name |-> "Perfect",
     artists |-> "Ed Sheeran", image |-> "https://img/y.jpg",
     duration_ms |-> 263400]
CdnUrlY == JsStr("https://cdn/y.mp3")

TwoUrls == {UrlTrack, UrlShapeOfYou}
TwoPages ==
    {[headers |-> Headers(TRUE, <<SessionCookieEntry>>), data |-> Html(TRUE, TRUE, Tok123)],
     [headers |-> Headers(TRUE, <<TokenCookieEntry>>), data |-> Html(TRUE, TRUE, Tok456)]}
TwoInfoBodies == {InfoBody(FALSE, TRUE, ShapeOfYou), InfoBody(FALSE, TRUE, Perfect)}
TwoPostBodies == {DownSpotify(TRUE, FALSE, CdnUrl), DownSpotify(TRUE, FALSE, CdnUrlY)}

InitTwo == callers = Runs /\ DownloadIdle /\ UrlIdle /\ CookiesIdle /\ QuotesIdle /\ YoutubeIdle /\ TiktokIdle /\ BatchIdle /\ LangIdle

NextTwo ==
    \E r \in Runs :
        \/ \E u \in TwoUrls : Start(r, u)
        \/ \E resp \in TwoPages : PageResolves(r, resp)
        \/ \E e \in PageErrors : PageRejects(r, e)
        \/ \E body \in TwoInfoBodies : InfoResponds(r, body)
        \/ \E e \in InfoErrors : InfoRejects(r, e)
        \/ \E data \in TwoPostBodies : PostResponds(r, data)
        \/ \E e \in {AxiosError("Network Error")} : PostRejects(r, e)

SpecTwo == InitTwo /\ [][NextTwo]_vars

(***************************************************************************)
(* extractTrackId on its own: a URL without "intl-id/", and the same URL   *)
(* with "intl-id/" put in at some position                                 *)
(***************************************************************************)

MaxFrags == 3

UrlFragments ==
    {TrackMarker, TrackAbc, QuerySi, QuestionMark, <<"t","r">>, <<"a","c","k","/">>}

RECURSIVE Flatten(_)
Flatten(fs) == IF Len(fs) = 0 THEN <<>> ELSE Head(fs) \o Flatten(Tail(fs))

\* The host followed by up to MaxFrags fragments.
PlainUrls ==
    {SpotifyHost \o Flatten(fs) :
        fs \in UNION {[1..n -> UrlFragments] : n \in 0..MaxFrags}}

InsertAt(s, p, seg) == SubSeq(s, 1, p) \o seg \o SubSeq(s, p + 1, Len(s))

InitUrl ==
    /\ callers = {}
    /\ DownloadIdle
    /\ CookiesIdle
    /\ QuotesIdle /\ YoutubeIdle /\ TiktokIdle /\ BatchIdle /\ LangIdle
    /\ urlPlain \in PlainUrls
    /\ \E p \in 0..Len(urlPlain) : urlIntl = InsertAt(urlPlain, p, IntlIdSegment)
    /\ idPlain = NotRun
    /\ idIntl = NotRun

ExtractPlain ==
    /\ ~idPlain.done
    /\ idPlain' = extractTrackId(urlPlain)
    /\ UNCHANGED <<dlVars, cookieVars, quoteVars, urlPlain, urlIntl, idIntl,
                   ytVars, tkVars, btVars, langVars>>

ExtractIntl ==
    /\ ~idIntl.done
    /\ idIntl' = extractTrackId(urlIntl)
    /\ UNCHANGED <<dlVars, cookieVars, quoteVars, urlPlain, urlIntl, idPlain,
                   ytVars, tkVars, btVars, langVars>>

NextUrl == ExtractPlain \/ ExtractIntl

SpecUrl == InitUrl /\ [][NextUrl]_vars

(***************************************************************************)
(* extractCookies on its own                                               *)
(***************************************************************************)

MaxCookies == 3

CookieEntries ==
    {SessionCookieEntry, TokenCookieEntry, <<"l","a","n","g","=","e","n">>,
     <<>>, <<";","x">>}

HeaderInputs ==
    {Headers(FALSE, <<>>)} \cup
    {Headers(TRUE, es) : es \in UNION {[1..n -> CookieEntries] : n \in 0..MaxCookies}}

InitCookies ==
    /\ callers = {}
    /\ DownloadIdle
    /\ UrlIdle
    /\ QuotesIdle /\ YoutubeIdle /\ TiktokIdle /\ BatchIdle /\ LangIdle
    /\ hdr \in HeaderInputs
    /\ cookieOut = Undefined

ApplyExtractCookies ==
    /\ cookieOut = Undefined
    /\ cookieOut' = extractCookies(hdr)
    /\ UNCHANGED <<dlVars, urlVars, quoteVars, hdr,
                   ytVars, tkVars, btVars, langVars>>

NextCookies == ApplyExtractCookies

SpecCookies == InitCookies /\ [][NextCookies]_vars

(***************************************************************************)
(* The quote scraper: one call, answered by the feed page or by a failure  *)
(***************************************************************************)

\* A feed page has up to MaxBlocks .kotodama-list elements.
MaxBlocks == 3

\* Math.random() returns rnd / RandDen for some rnd in 0..RandDen-1.
RandDen == 4

Lawliet == <<"\n"," ","L"," ","\n">>
DeathNote == <<"D","N">>
Episode1 == <<" ","E","p"," ","1">>
HiThere == <<" ","H","i","!"," ">>
ImageSrc == <<"i",".","j","p","g">>
LinkQuote42 == <<"/","q","u","o","t","e","/","4","2">>
LinkOther ==
    <<"h","t","t","p","s",":","/","/","o","t","h","e","r",".","e","x","a","m","p","l","e","/","x">>
LinkHttpFaq == <<"h","t","t","p","-","f","a","q",".","h","t","m","l">>

\* The elements a page is made of: a complete one; one without image and
\* with an absolute link; one without episode text; one without a.kuroi; one
\* with an empty href; one without character; one with a blank anime title;
\* one with a blank quote; one whose relative link begins with "http".
QuoteBlocks ==
    {QuoteBlock(Lawliet, DeathNote, Episode1, HiThere, ImageSrc, LinkQuote42),
     QuoteBlock(Lawliet, DeathNote, Episode1, HiThere, Undefined, LinkOther),
     QuoteBlock(Lawliet, DeathNote, <<>>, HiThere, ImageSrc, LinkQuote42),
     QuoteBlock(Lawliet, DeathNote, Episode1, HiThere, ImageSrc, Undefined),
     QuoteBlock(Lawliet, DeathNote, Episode1, HiThere, ImageSrc, <<>>),
     QuoteBlock(<<>>, DeathNote, Episode1, HiThere, ImageSrc, LinkQuote42),
     QuoteBlock(Lawliet, <<" ">>, Episode1, HiThere, ImageSrc, LinkQuote42),
     QuoteBlock(Lawliet, DeathNote, Episode1, <<"\n">>, ImageSrc, LinkQuote42),
     QuoteBlock(Lawliet, DeathNote, <<" ","\n">>, HiThere, Undefined, LinkHttpFaq)}

QuotePages == UNION {[1..n -> QuoteBlocks] : n \in 0..MaxBlocks}

\* The failures of the GET: a non-2xx answer, a timeout, a transport error.
QuoteFetchErrors ==
    {QuoteAxiosError("Request failed with status code 503", <<[status |-> 503]>>),
     QuoteAxiosError("timeout of 10000ms exceeded", <<>>),
     QuoteAxiosError("Network Error", <<>>)}

\* Variant: the product is rounded up.
RandomIndex_ceil(rnd, length) == (rnd * length + RandDen - 1) \div RandDen

\* Math.floor(Math.random() * quotes.length), Math.random() being rnd / RandDen.
RandomIndex(rnd, length) == (rnd * length) \div RandDen

\* array[index]: undefined (here: nothing) outside the array.
ArrayAt(array, index) ==
    IF index \in 0..(Len(array) - 1) THEN <<array[index + 1]>> ELSE <<>>

\* The client calls getAllQuotes(): fetchQuotePage sends the GET.
CallGetAllQuotes ==
    /\ quotePc = "Idle"
    /\ quotePc' = "Fetching"
    /\ quoteCall' = "getAllQuotes"
    /\ quotePageP' = Pending(<<>>)
    /\ UNCHANGED <<quotes, randomIndex, quoteOutcome, dlVars, urlVars, cookieVars,
                   ytVars, tkVars, btVars, langVars>>

\* The client calls getRandomQuote(), which calls getAllQuotes().
CallGetRandomQuote ==
    /\ quotePc = "Idle"
    /\ quotePc' = "Fetching"
    /\ quoteCall' = "getRandomQuote"
    /\ quotePageP' = Pending(<<>>)
    /\ UNCHANGED <<quotes, randomIndex, quoteOutcome, dlVars, urlVars, cookieVars,
                   ytVars, tkVars, btVars, langVars>>

\* The GET of the feed resolves with the page `html`: getAllQuotes returns
\* parseQuotes(response.data); getRandomQuote, if it is the caller, picks
\* from that array with the random number rnd / RandDen.
QuotePageResolves(html, rnd) ==
    /\ quotePageP.state = "pending"
    /\ quotePageP' = Fulfilled(html)
    /\ quotePc' = "Done"
    /\ LET all == parseQuotes(html)
           index == RandomIndex(rnd, Len(all))
       IN  /\ quotes' = all
           /\ IF quoteCall = "getAllQuotes"
              THEN /\ quoteOutcome' = QuoteReturned("list", all)
                   /\ randomIndex' = randomIndex
              ELSE IF Len(all) > 0
              THEN /\ quoteOutcome' = QuoteReturned("quote", ArrayAt(all, index))
                   /\ randomIndex' = index
              ELSE /\ quoteOutcome' = QuoteReturned("null", <<>>)
                   /\ randomIndex' = randomIndex
    /\ UNCHANGED <<quoteCall, dlVars, urlVars, cookieVars,
                   ytVars, tkVars, btVars, langVars>>

\* The GET of the feed rejects: getAllQuotes throws its ScrapingException,
\* which getRandomQuote, if it is the caller, wraps in its own.
QuotePageRejects(e) ==
    /\ quotePageP.state = "pending"
    /\ quotePageP' = Rejected(<<>>, e)
    /\ quotePc' = "Failed"
    /\ quoteOutcome' =
          QuoteThrown(IF quoteCall = "getAllQuotes" THEN getAllQuotes_catch(e)
                      ELSE getRandomQuote_catch(getAllQuotes_catch(e)))
    /\ UNCHANGED <<quoteCall, quotes, randomIndex, dlVars, urlVars, cookieVars,
                   ytVars, tkVars, btVars, langVars>>

InitQuotes == callers = {} /\ DownloadIdle /\ UrlIdle /\ CookiesIdle /\ QuotesIdle /\ YoutubeIdle /\ TiktokIdle /\ BatchIdle /\ LangIdle

NextQuotes ==
    \/ CallGetAllQuotes
    \/ CallGetRandomQuote
    \/ \E html \in QuotePages :
          \E rnd \in (IF quoteCall = "getRandomQuote" THEN 0..(RandDen - 1) ELSE {0}) :
             QuotePageResolves(html, rnd)
    \/ \E e \in QuoteFetchErrors : QuotePageRejects(e)

SpecQuotes == InitQuotes /\ [][NextQuotes]_vars

(***************************************************************************)
(* YoutubeService: getInfo, downloadContent, downloadToFile                *)
(***************************************************************************)

\* The JSON value yt-dlp prints, as far as the methods read it: an object
\* (with title, url, requested_downloads[0].url, _filename, ext and formats,
\* each of which may be missing), null, or a number.  formats is missing, an
\* array (of the format_ids of its entries) or something that is no array.
VideoInfoJson(type, title, u, requested, filename, ext, formatsKind, formats) ==
    [type |-> type, title |-> title, url |-> u, requested |-> requested,
     filename |-> filename, ext |-> ext,
     formatsKind |-> formatsKind, formats |-> formats]
JsonNull == VideoInfoJson("null", JsNoStr, JsNoStr, JsNoStr, JsNoStr, JsNoStr, "missing", <<>>)
JsonNumber == VideoInfoJson("number", JsNoStr, JsNoStr, JsNoStr, JsNoStr, JsNoStr, "missing", <<>>)

\* What yt-dlp may print before it exits with code 0.
StdoutFull ==
    "{\"title\":\"Song\",\"url\":\"https://v/a\",\"_filename\":\"Song.mp3\",\"ext\":\"mp3\",\"formats\":[{\"format_id\":\"18\"},{\"format_id\":\"22\"}]}"
StdoutRequested ==
    "{\"title\":\"Song\",\"ext\":\"webm\",\"requested_downloads\":[{\"url\":\"https://v/b\"}]}"
StdoutFormatsString == "{\"title\":\"Song\",\"formats\":\"none\"}"
StdoutNull == "null"
StdoutNumber == "5"
StdoutEmpty == ""
StdoutErrorText == "ERROR: Video unavailable"
Stdouts ==
    {StdoutFull, StdoutRequested, StdoutFormatsString, StdoutNull, StdoutNumber,
     StdoutEmpty, StdoutErrorText}

\* JSON.parse(stdout) for the texts above: the value, or a SyntaxError.
JSONparse(text) ==
    CASE text = StdoutFull ->
           Ok(VideoInfoJson("object", JsStr("Song"), JsStr("https://v/a"), JsNoStr,
                            JsStr("Song.mp3"), JsStr("mp3"), "array", <<"18", "22">>))
      [] text = StdoutRequested ->
           Ok(VideoInfoJson("object", JsStr("Song"), JsNoStr, JsStr("https://v/b"),
                            JsNoStr, JsStr("webm"), "missing", <<>>))
      [] text = StdoutFormatsString ->
           Ok(VideoInfoJson("object", JsStr("Song"), JsNoStr, JsNoStr,
                            JsNoStr, JsNoStr, "string", <<>>))
      [] text = StdoutNull -> Ok(JsonNull)
      [] text = StdoutNumber -> Ok(JsonNumber)
      [] text = StdoutEmpty ->
           Threw(MkError("SyntaxError", "Unexpected end of JSON input"))
      [] OTHER ->
           Threw(MkError("SyntaxError", "Unexpected token E in JSON at position 0"))

\* What execa rejects with: a non-zero exit code, or no such binary.
ExecaErrors ==
    {MkError("ExecaError", "Command failed with exit code 1: yt-dlp"),
     MkError("ExecaError", "Command failed with ENOENT: yt-dlp")}

\* a || b on strings that may be undefined.
OrElse(a, b) == IF a.def /\ a.s # "" THEN a ELSE b

\* `${x}` for a string that may be undefined.
Template(x) == IF x.def THEN x.s ELSE "undefined"

\* InfoResponseYT / DownloadResponseYT: of a VideoInfo the title and the
\* formats are kept (the other fields are copied like the title), of a
\* DownloadResult the title, download_url, filename and ext.
YtResult(title, download_url, filename, ext, formats, error) ==
    [title |-> title, download_url |-> download_url, filename |-> filename,
     ext |-> ext, formats |-> formats, error |-> error]
YtSuccess(result) == [status |-> "Success", result |-> result]
YtFailed(message) ==
    [status |-> "Failed",
     result |-> YtResult(JsNoStr, JsNoStr, JsNoStr, JsNoStr, <<>>, JsStr(message))]

\* How the promise of an async method settled.
YtResolved(v) == [state |-> "fulfilled", value |-> <<v>>, reason |-> NoError]
YtRejected(e) == [state |-> "rejected", value |-> <<>>, reason |-> e]

\* error instanceof Error ? error.message : "Unknown error occurred"
ErrorMessage(error) == IF error.isError THEN error.message ELSE "Unknown error occurred"

\* Variant: the catch clause throws the error again.
getInfo_catch_rethrows(error) == YtRejected(error)

\* The catch clause of getInfo: handleError only writes to the console.
getInfo_catch(error) == YtResolved(YtFailed(ErrorMessage(error)))

\* The catch clause of downloadContent.
downloadContent_catch(error) == YtResolved(YtFailed(ErrorMessage(error)))

\* getInfo after `await execa(...)` fulfilled with stdout.
getInfo_afterExeca(stdout) ==
    LET parsed == JSONparse(stdout)
        videoInfo == parsed.value
    IN  IF ~parsed.ok THEN getInfo_catch(parsed.error)
        ELSE IF videoInfo.type = "null"
        THEN getInfo_catch(TypeErrorReading("null", "title"))
        ELSE IF videoInfo.formatsKind = "string"
        THEN getInfo_catch(MkError("TypeError", "videoInfo.formats?.map is not a function"))
        ELSE YtResolved(YtSuccess(YtResult(videoInfo.title, JsNoStr, JsNoStr, JsNoStr,
                                           videoInfo.formats, JsNoStr)))

\* downloadContent after `await execa(...)` fulfilled with stdout.
downloadContent_afterExeca(stdout) ==
    LET parsed == JSONparse(stdout)
        videoInfo == parsed.value
    IN  IF ~parsed.ok THEN downloadContent_catch(parsed.error)
        ELSE IF videoInfo.type = "null"
        THEN downloadContent_catch(TypeErrorReading("null", "title"))
        ELSE YtResolved(YtSuccess(YtResult(
                 videoInfo.title,
                 OrElse(videoInfo.url, videoInfo.requested),
                 OrElse(videoInfo.filename,
                        JsStr(Template(videoInfo.title) \o "." \o Template(videoInfo.ext))),
                 videoInfo.ext, <<>>, JsNoStr)))

\* { success: true, filePath: outputPath }
DownloadToFileResult(success, filePath, error) ==
    [success |-> success, filePath |-> filePath, error |-> error]

YtCall(method, u, outputPath, mediaType, height) ==
    [method |-> method, url |-> u, outputPath |-> outputPath,
     mediaType |-> mediaType, height |-> height]

\* execa(file, args)
Execa(file, args) == [file |-> file, args |-> args]

\* The arguments after the fixed ones: audio extraction, or a format filter.
MediaArgs(mediaType, height) ==
    IF mediaType = "audio" THEN <<"-x", "--audio-format", "mp3">>
    ELSE <<"-f", "best[height<=" \o ToString(height) \o "]">>

YtUrls ==
    {"https://www.youtube.com/watch?v=dQw4w9WgXcQ",
     "https://www.youtube.com/watch?v=video1"}
OutputPaths == {"./downloads/%(title)s.%(ext)s", "./downloads/video_1.%(ext)s"}
MediaTypes == {"audio", "video"}
Heights == {360, 1080}

\* getInfo(url) up to its await: execa("yt-dlp", ["-j", url]).
CallGetInfo(u) ==
    /\ ytPc = "Idle"
    /\ ytPc' = "Running"
    /\ ytCall' = <<YtCall("getInfo", u, "", "", 0)>>
    /\ ytExeca' = Append(ytExeca, Execa("yt-dlp", <<"-j", u>>))
    /\ ytP' = Pending("")
    /\ UNCHANGED <<ytOutcome, dlVars, urlVars, cookieVars, quoteVars,
                   tkVars, btVars, langVars>>

\* downloadContent(url, mediaType, height) up to its await.
CallDownloadContent(u, mediaType, height) ==
    /\ ytPc = "Idle"
    /\ ytPc' = "Running"
    /\ ytCall' = <<YtCall("downloadContent", u, "", mediaType, height)>>
    /\ ytExeca' = Append(ytExeca,
                         Execa("yt-dlp", <<"-j", "--print-json">>
                                         \o MediaArgs(mediaType, height) \o <<u>>))
    /\ ytP' = Pending("")
    /\ UNCHANGED <<ytOutcome, dlVars, urlVars, cookieVars, quoteVars,
                   tkVars, btVars, langVars>>

\* downloadToFile(url, outputPath, mediaType, height): the arguments are put
\* together, the call of execa is commented out in the source, and the
\* method returns at once; nothing in its try block can throw.
CallDownloadToFile(u, outputPath, mediaType, height) ==
    /\ ytPc = "Idle"
    /\ ytPc' = "Done"
    /\ ytCall' = <<YtCall("downloadToFile", u, outputPath, mediaType, height)>>
    /\ ytOutcome' = <<YtResolved(DownloadToFileResult(TRUE, JsStr(outputPath), JsNoStr))>>
    /\ UNCHANGED <<ytExeca, ytP, dlVars, urlVars, cookieVars, quoteVars,
                   tkVars, btVars, langVars>>

\* yt-dlp exits with code 0 having printed stdout; the waiting method goes on.
ToolExits(stdout) ==
    /\ ytP.state = "pending"
    /\ ytP' = Fulfilled(stdout)
    /\ ytPc' = "Done"
    /\ ytOutcome' = <<IF ytCall[1].method = "getInfo" THEN getInfo_afterExeca(stdout)
                      ELSE downloadContent_afterExeca(stdout)>>
    /\ UNCHANGED <<ytCall, ytExeca, dlVars, urlVars, cookieVars, quoteVars,
                   tkVars, btVars, langVars>>

\* execa rejects: yt-dlp exited with another code or could not be started.
ToolFails(e) ==
    /\ ytP.state = "pending"
    /\ ytP' = Rejected("", e)
    /\ ytPc' = "Done"
    /\ ytOutcome' = <<IF ytCall[1].method = "getInfo" THEN getInfo_catch(e)
                      ELSE downloadContent_catch(e)>>
    /\ UNCHANGED <<ytCall, ytExeca, dlVars, urlVars, cookieVars, quoteVars,
                   tkVars, btVars, langVars>>

InitYoutube ==
    /\ callers = {}
    /\ DownloadIdle /\ UrlIdle /\ CookiesIdle /\ QuotesIdle
    /\ YoutubeIdle /\ TiktokIdle /\ BatchIdle /\ LangIdle

NextYoutube ==
    \/ \E u \in YtUrls : CallGetInfo(u)
    \/ \E u \in YtUrls, m \in MediaTypes, h \in Heights : CallDownloadContent(u, m, h)
    \/ \E u \in YtUrls, o \in OutputPaths, m \in MediaTypes, h \in Heights :
          CallDownloadToFile(u, o, m, h)
    \/ \E stdout \in Stdouts : ToolExits(stdout)
    \/ \E e \in ExecaErrors : ToolFails(e)

SpecYoutube == InitYoutube /\ [][NextYoutube]_vars

(***************************************************************************)
(* Tiktok.searchVideos (src/core/tiktok.ts)                                *)
(***************************************************************************)

\* Values of the response body's fields: a type tag and, for numbers, the
\* number.
TkUndefined == [t |-> "undefined", n |-> 0]
TkNumber(n) == [t |-> "number", n |-> n]
TkNumericString(n) == [t |-> "string", n |-> n]

\* The code field as the API can send it: absent, a number, or a string
\* holding a number.
TkCodes == {TkUndefined, TkNumber(0), TkNumber(-1), TkNumber(1), TkNumericString(0)}

TkVideo(video_id) == [video_id |-> video_id]

\* The videos field: absent, null, an object, a string or an array.
TkVideosValue(t, items) == [t |-> t, items |-> items]
TkVideosValues ==
    {TkVideosValue(t, <<>>) : t \in {"undefined", "null", "object", "string"}}
    \cup {TkVideosValue("array", items) :
             items \in {<<>>, <<TkVideo("7301")>>, <<TkVideo("7301"), TkVideo("7302")>>}}

\* The data field: absent, null, a string or an object with a videos field.
TkDataValue(t, videos) == [t |-> t, videos |-> videos]
TkDataValues ==
    {TkDataValue(t, TkVideosValue("undefined", <<>>)) : t \in {"undefined", "null", "string"}}
    \cup {TkDataValue("object", v) : v \in TkVideosValues}

\* response.data: nothing (null), the empty string, a text, or a parsed
\* JSON object.
TkBody(t, code, data) == [t |-> t, code |-> code, data |-> data]
TkBodies ==
    {TkBody(t, TkUndefined, TkDataValue("undefined", TkVideosValue("undefined", <<>>))) :
        t \in {"null", "emptyString", "string"}}
    \cup {TkBody("object", c, d) : c \in TkCodes, d \in TkDataValues}

\* !v for the values above.
TkFalsy(v) == v.t \in {"undefined", "null", "emptyString"}

\* data.code: reading a property of a string gives undefined.
TkGetCode(data) == IF data.t = "object" THEN data.code ELSE TkUndefined

\* data.data
TkGetData(data) ==
    IF data.t = "object" THEN data.data
    ELSE TkDataValue("undefined", TkVideosValue("undefined", <<>>))

\* data.data.videos
TkGetVideos(d) == IF d.t = "object" THEN d.videos ELSE TkVideosValue("undefined", <<>>)

TkErrorPrefix == "Failed to get results from TikTok API: "

\* The catch clause of searchVideos: every error is thrown again as a new
\* Error carrying the prefix and the caught error's message.
searchVideos_catch(error) == Rejected(<<>>, MkError("Error", TkErrorPrefix \o error.message))

\* Variant: the code is only required to be a number.
searchVideos_afterAxios_anyNumber(data) ==
    IF TkFalsy(data) \/ TkGetCode(data).t # "number"
    THEN searchVideos_catch(MkError("Error", "Invalid API response"))
    ELSE IF TkFalsy(TkGetData(data)) \/ TkGetVideos(TkGetData(data)).t # "array"
    THEN searchVideos_catch(MkError("Error", "Invalid API response structure"))
    ELSE Fulfilled(<<data>>)

\* searchVideos after the request was answered with body data.
searchVideos_afterAxios(data) ==
    IF TkFalsy(data) \/ TkGetCode(data).t # "number" \/ TkGetCode(data).n # 0
    THEN searchVideos_catch(MkError("Error", "Invalid API response"))
    ELSE IF TkFalsy(TkGetData(data)) \/ TkGetVideos(TkGetData(data)).t # "array"
    THEN searchVideos_catch(MkError("Error", "Invalid API response structure"))
    ELSE Fulfilled(<<data>>)

TkQueries == {"funny cats", "cooking", ""}

TkAxiosErrors ==
    {AxiosError("Request failed with status code 403"),
     AxiosError("Network Error"),
     AxiosError("timeout of 0ms exceeded")}

\* searchVideos(query) up to its await.
CallSearchVideos(query) ==
    /\ tkPc = "Idle"
    /\ tkPc' = "Running"
    /\ tkQuery' = <<query>>
    /\ tkP' = Pending(<<>>)
    /\ UNCHANGED <<tkOutcome, dlVars, urlVars, cookieVars, quoteVars,
                   ytVars, btVars, langVars>>

\* The search request is answered with a 2xx status and body data.
SearchResponds(data) ==
    /\ tkP.state = "pending"
    /\ tkP' = Fulfilled(<<data>>)
    /\ tkPc' = "Done"
    /\ tkOutcome' = <<searchVideos_afterAxios(data)>>
    /\ UNCHANGED <<tkQuery, dlVars, urlVars, cookieVars, quoteVars,
                   ytVars, btVars, langVars>>

\* The search request fails.
SearchRejects(e) ==
    /\ tkP.state = "pending"
    /\ tkP' = Rejected(<<>>, e)
    /\ tkPc' = "Done"
    /\ tkOutcome' = <<searchVideos_catch(e)>>
    /\ UNCHANGED <<tkQuery, dlVars, urlVars, cookieVars, quoteVars,
                   ytVars, btVars, langVars>>

InitTiktok ==
    /\ callers = {}
    /\ DownloadIdle /\ UrlIdle /\ CookiesIdle /\ QuotesIdle
    /\ YoutubeIdle /\ TiktokIdle /\ BatchIdle /\ LangIdle

NextTiktok ==
    \/ \E query \in TkQueries : CallSearchVideos(query)
    \/ \E data \in TkBodies : SearchResponds(data)
    \/ \E e \in TkAxiosErrors : SearchRejects(e)

SpecTiktok == InitTiktok /\ [][NextTiktok]_vars

(***************************************************************************)
(* translate and Translate.batchTranslate (src/core/translate.ts)          *)
(***************************************************************************)

\* The largest number of texts handed to batchTranslate.
MaxTexts == 3

BatchTexts == {"Hello", "Good morning. Thank you.", ""}

\* response.data of the translation endpoint: null, or an array whose
\* element 0 is null (first = <<>>) or an array of segments (first holds it),
\* each segment an array starting with the translated piece, and whose
\* element 2 is the detected language ("" when absent).
GtBody(t, first, detected) == [t |-> t, first |-> first, detected |-> detected]
GtNullBody == GtBody("null", <<>>, "")

\* What the endpoint answers for a text.
GoogleTranslate(text) ==
    CASE text = "Hello" -> GtBody("array", << <<<<"Halo", "Hello">>>> >>, "en")
      [] text = "Good morning. Thank you." ->
            GtBody("array", << << <<"Selamat pagi.", "Good morning. ">>,
                                  <<"Terima kasih.", "Thank you.">> >> >>, "en")
      [] OTHER -> GtBody("array", <<>>, "")

TranslateErrors ==
    {AxiosError("Request failed with status code 429"),
     AxiosError("Network Error")}

\* Array.prototype.join on an array of strings.
RECURSIVE JoinText(_, _)
JoinText(parts, sep) ==
    IF parts = <<>> THEN ""
    ELSE IF Len(parts) = 1 THEN parts[1]
    ELSE parts[1] \o sep \o JoinText(Tail(parts), sep)

TranslateResult(text, detectedLanguage, raw) ==
    [text |-> text, detectedLanguage |-> detectedLanguage, raw |-> raw]

\* translate(text, from, to) after its request was answered with body data:
\* the translated pieces joined by a space, "" when element 0 is missing or
\* the joined text is empty.
translate_afterAxios(from, data) ==
    IF data.t = "null" THEN Threw(TypeErrorReading("null", "0"))
    ELSE LET translatedText ==
                 IF data.first = <<>> THEN ""
                 ELSE JoinText([k \in 1..Len(data.first[1]) |-> data.first[1][k][1]], " ")
             detectedLanguage == IF data.detected = "" THEN from ELSE data.detected
         IN  Ok(<<TranslateResult(translatedText, detectedLanguage, data)>>)

\* `${error}` for an Error object.
ErrorText(error) == error.name \o ": " \o error.message

\* Promise.all over an array of promises, when one of them is fulfilled:
\* once every promise is fulfilled it is fulfilled with their values in the
\* order of the array.
PromiseAllOf_onFulfil(all, promises) ==
    IF all.state = "pending" /\ \A i \in 1..Len(promises) : promises[i].state = "fulfilled"
    THEN Fulfilled([i \in 1..Len(promises) |-> promises[i].value[1]])
    ELSE all

\* Promise.all when one of its promises is rejected: the first rejection
\* rejects it.
PromiseAllOf_onReject(all, reason) ==
    IF all.state = "pending" THEN Rejected(<<>>, reason) ELSE all

\* Variant: the texts are returned last result first.
batchTranslate_afterAll_reversed(all) ==
    IF all.state = "fulfilled"
    THEN Fulfilled([i \in 1..Len(all.value) |-> all.value[Len(all.value) + 1 - i].text])
    ELSE Rejected(<<>>, MkError("Error", "Batch translation failed: " \o ErrorText(all.reason)))

\* batchTranslate after `await Promise.all(promises)` settled.
batchTranslate_afterAll(all) ==
    IF all.state = "fulfilled"
    THEN Fulfilled([i \in 1..Len(all.value) |-> all.value[i].text])
    ELSE Rejected(<<>>, MkError("Error", "Batch translation failed: " \o ErrorText(all.reason)))

\* batchTranslate(texts, to, from) up to its await: one translate call per
\* text, each up to its own await, and Promise.all over them.  Promise.all of
\* no promise is fulfilled at once.
CallBatchTranslate(texts) ==
    /\ btPc = "Idle"
    /\ btTexts' = texts
    /\ btP' = [i \in 1..Len(texts) |-> Pending(<<>>)]
    /\ btSettled' = <<>>
    /\ btAll' = PromiseAllOf_onFulfil(Pending(<<>>), btP')
    /\ btPc' = IF btAll'.state = "pending" THEN "Running" ELSE "Done"
    /\ btOutcome' = IF btAll'.state = "pending" THEN <<>>
                    ELSE <<batchTranslate_afterAll(btAll')>>
    /\ UNCHANGED <<dlVars, urlVars, cookieVars, quoteVars, ytVars, tkVars, langVars>>

\* Promise p of request i is settled; Promise.all and, when that settles,
\* the waiting batchTranslate go on.
SettleTranslate(i, p) ==
    /\ btP' = [btP EXCEPT ![i] = p]
    /\ btSettled' = Append(btSettled, i)
    /\ btAll' = IF p.state = "fulfilled" THEN PromiseAllOf_onFulfil(btAll, btP')
                ELSE PromiseAllOf_onReject(btAll, p.reason)
    /\ btPc' = IF btAll'.state = "pending" THEN "Running" ELSE "Done"
    /\ btOutcome' = IF btAll.state = "pending" /\ btAll'.state # "pending"
                    THEN <<batchTranslate_afterAll(btAll')>>
                    ELSE btOutcome
    /\ UNCHANGED <<btTexts, dlVars, urlVars, cookieVars, quoteVars,
                   ytVars, tkVars, langVars>>

\* The request of the i-th text is answered with body data.
TranslateResponds(i, data) ==
    /\ i \in 1..Len(btP)
    /\ btP[i].state = "pending"
    /\ LET r == translate_afterAxios("auto", data)
       IN  SettleTranslate(i, IF r.ok THEN Fulfilled(r.value) ELSE Rejected(<<>>, r.error))

\* The request of the i-th text fails.
TranslateRejects(i, e) ==
    /\ i \in 1..Len(btP)
    /\ btP[i].state = "pending"
    /\ SettleTranslate(i, Rejected(<<>>, e))

\* The batches of at most n texts.
BatchesUpTo(n) == UNION {[1..k -> BatchTexts] : k \in 0..n}

InitBatch ==
    /\ callers = {}
    /\ DownloadIdle /\ UrlIdle /\ CookiesIdle /\ QuotesIdle
    /\ YoutubeIdle /\ TiktokIdle /\ BatchIdle /\ LangIdle

NextBatch ==
    \/ \E texts \in BatchesUpTo(MaxTexts) : CallBatchTranslate(texts)
    \/ \E i \in 1..MaxTexts :
          \E data \in (IF i <= Len(btTexts) THEN {GoogleTranslate(btTexts[i])} ELSE {})
                      \cup {GtNullBody} :
             TranslateResponds(i, data)
    \/ \E i \in 1..MaxTexts, e \in TranslateErrors : TranslateRejects(i, e)

SpecBatch == InitBatch /\ [][NextBatch]_vars

(***************************************************************************)
(* Translate.getLanguageName / getLanguageCode (src/core/translate.ts)     *)
(***************************************************************************)

\* An entry of the language table: the code, and the name as its sequence
\* of characters.
Lang(code, name) == [code |-> code, name |-> name]

SUPPORTED_LANGUAGES ==
    <<
     Lang("auto", <<"A", "u", "t", "o", " ", "D", "e", "t", "e", "c", "t">>),
     Lang("af", <<"A", "f", "r", "i", "k", "a", "a", "n", "s">>),
     Lang("sq", <<"A", "l", "b", "a", "n", "i", "a", "n">>),
     Lang("am", <<"A", "m", "h", "a", "r", "i", "c">>),
     Lang("ar", <<"A", "r", "a", "b", "i", "c">>),
     Lang("hy", <<"A", "r", "m", "e", "n", "i", "a", "n">>),
     Lang("az", <<"A", "z", "e", "r", "b", "a", "i", "j", "a", "n", "i">>),
     Lang("eu", <<"B", "a", "s", "q", "u", "e">>),
     Lang("be", <<"B", "e", "l", "a", "r", "u", "s", "i", "a", "n">>),
     Lang("bn", <<"B", "e", "n", "g", "a", "l", "i">>),
     Lang("bs", <<"B", "o", "s", "n", "i", "a", "n">>),
     Lang("bg", <<"B", "u", "l", "g", "a", "r", "i", "a", "n">>),
     Lang("ca", <<"C", "a", "t", "a", "l", "a", "n">>),
     Lang("ceb", <<"C", "e", "b", "u", "a", "n", "o">>),
     Lang("ny", <<"C", "h", "i", "c", "h", "e", "w", "a">>),
     Lang("zh", <<"C", "h", "i", "n", "e", "s", "e", " ", "(", "S", "i", "m", "p", "l", "i", "f", "i", "e", "d", ")">>),
     Lang("zh-cn", <<"C", "h", "i", "n", "e", "s", "e", " ", "(", "S", "i", "m", "p", "l", "i", "f", "i", "e", "d", ")">>),
     Lang("zh-tw", <<"C", "h", "i", "n", "e", "s", "e", " ", "(", "T", "r", "a", "d", "i", "t", "i", "o", "n", "a", "l", ")">>),
     Lang("co", <<"C", "o", "r", "s", "i", "c", "a", "n">>),
     Lang("hr", <<"C", "r", "o", "a", "t", "i", "a", "n">>),
     Lang("cs", <<"C", "z", "e", "c", "h">>),
     Lang("da", <<"D", "a", "n", "i", "s", "h">>),
     Lang("nl", <<"D", "u", "t", "c", "h">>),
     Lang("en", <<"E", "n", "g", "l", "i", "s", "h">>),
     Lang("eo", <<"E", "s", "p", "e", "r", "a", "n", "t", "o">>),
     Lang("et", <<"E", "s", "t", "o", "n", "i", "a", "n">>),
     Lang("tl", <<"F", "i", "l", "i", "p", "i", "n", "o">>),
     Lang("fi", <<"F", "i", "n", "n", "i", "s", "h">>),
     Lang("fr", <<"F", "r", "e", "n", "c", "h">>),
     Lang("fy", <<"F", "r", "i", "s", "i", "a", "n">>),
     Lang("gl", <<"G", "a", "l", "i", "c", "i", "a", "n">>),
     Lang("ka", <<"G", "e", "o", "r", "g", "i", "a", "n">>),
     Lang("de", <<"G", "e", "r", "m", "a", "n">>),
     Lang("el", <<"G", "r", "e", "e", "k">>),
     Lang("gu", <<"G", "u", "j", "a", "r", "a", "t", "i">>),
     Lang("ht", <<"H", "a", "i", "t", "i", "a", "n", " ", "C", "r", "e", "o", "l", "e">>),
     Lang("ha", <<"H", "a", "u", "s", "a">>),
     Lang("haw", <<"H", "a", "w", "a", "i", "i", "a", "n">>),
     Lang("iw", <<"H", "e", "b", "r", "e", "w">>),
     Lang("he", <<"H", "e", "b", "r", "e", "w">>),
     Lang("hi", <<"H", "i", "n", "d", "i">>),
     Lang("hmn", <<"H", "m", "o", "n", "g">>),
     Lang("hu", <<"H", "u", "n", "g", "a", "r", "i", "a", "n">>),
     Lang("is", <<"I", "c", "e", "l", "a", "n", "d", "i", "c">>),
     Lang("ig", <<"I", "g", "b", "o">>),
     Lang("id", <<"I", "n", "d", "o", "n", "e", "s", "i", "a", "n">>),
     Lang("ga", <<"I", "r", "i", "s", "h">>),
     Lang("it", <<"I", "t", "a", "l", "i", "a", "n">>),
     Lang("ja", <<"J", "a", "p", "a", "n", "e", "s", "e">>),
     Lang("jw", <<"J", "a", "v", "a", "n", "e", "s", "e">>),
     Lang("kn", <<"K", "a", "n", "n", "a", "d", "a">>),
     Lang("kk", <<"K", "a", "z", "a", "k", "h">>),
     Lang("km", <<"K", "h", "m", "e", "r">>),
     Lang("ko", <<"K", "o", "r", "e", "a", "n">>),
     Lang("ku", <<"K", "u", "r", "d", "i", "s", "h", " ", "(", "K", "u", "r", "m", "a", "n", "j", "i", ")">>),
     Lang("ky", <<"K", "y", "r", "g", "y", "z">>),
     Lang("lo", <<"L", "a", "o">>),
     Lang("la", <<"L", "a", "t", "i", "n">>),
     Lang("lv", <<"L", "a", "t", "v", "i", "a", "n">>),
     Lang("lt", <<"L", "i", "t", "h", "u", "a", "n", "i", "a", "n">>),
     Lang("lb", <<"L", "u", "x", "e", "m", "b", "o", "u", "r", "g", "i", "s", "h">>),
     Lang("mk", <<"M", "a", "c", "e", "d", "o", "n", "i", "a", "n">>),
     Lang("mg", <<"M", "a", "l", "a", "g", "a", "s", "y">>),
     Lang("ms", <<"M", "a", "l", "a", "y">>),
     Lang("ml", <<"M", "a", "l", "a", "y", "a", "l", "a", "m">>),
     Lang("mt", <<"M", "a", "l", "t", "e", "s", "e">>),
     Lang("mi", <<"M", "a", "o", "r", "i">>),
     Lang("mr", <<"M", "a", "r", "a", "t", "h", "i">>),
     Lang("mn", <<"M", "o", "n", "g", "o", "l", "i", "a", "n">>),
     Lang("my", <<"M", "y", "a", "n", "m", "a", "r", " ", "(", "B", "u", "r", "m", "e", "s", "e", ")">>),
     Lang("ne", <<"N", "e", "p", "a", "l", "i">>),
     Lang("no", <<"N", "o", "r", "w", "e", "g", "i", "a", "n">>),
     Lang("or", <<"O", "d", "i", "a">>),
     Lang("ps", <<"P", "a", "s", "h", "t", "o">>),
     Lang("fa", <<"P", "e", "r", "s", "i", "a", "n">>),
     Lang("pl", <<"P", "o", "l", "i", "s", "h">>),
     Lang("pt", <<"P", "o", "r", "t", "u", "g", "u", "e", "s", "e">>),
     Lang("pa", <<"P", "u", "n", "j", "a", "b", "i">>),
     Lang("ro", <<"R", "o", "m", "a", "n", "i", "a", "n">>),
     Lang("ru", <<"R", "u", "s", "s", "i", "a", "n">>),
     Lang("sm", <<"S", "a", "m", "o", "a", "n">>),
     Lang("gd", <<"S", "c", "o", "t", "s", " ", "G", "a", "e", "l", "i", "c">>),
     Lang("sr", <<"S", "e", "r", "b", "i", "a", "n">>),
     Lang("st", <<"S", "e", "s", "o", "t", "h", "o">>),
     Lang("sn", <<"S", "h", "o", "n", "a">>),
     Lang("sd", <<"S", "i", "n", "d", "h", "i">>),
     Lang("si", <<"S", "i", "n", "h", "a", "l", "a">>),
     Lang("sk", <<"S", "l", "o", "v", "a", "k">>),
     Lang("sl", <<"S", "l", "o", "v", "e", "n", "i", "a", "n">>),
     Lang("so", <<"S", "o", "m", "a", "l", "i">>),
     Lang("es", <<"S", "p", "a", "n", "i", "s", "h">>),
     Lang("su", <<"S", "u", "n", "d", "a", "n", "e", "s", "e">>),
     Lang("sw", <<"S", "w", "a", "h", "i", "l", "i">>),
     Lang("sv", <<"S", "w", "e", "d", "i", "s", "h">>),
     Lang("tg", <<"T", "a", "j", "i", "k">>),
     Lang("ta", <<"T", "a", "m", "i", "l">>),
     Lang("te", <<"T", "e", "l", "u", "g", "u">>),
     Lang("th", <<"T", "h", "a", "i">>),
     Lang("tr", <<"T", "u", "r", "k", "i", "s", "h">>),
     Lang("uk", <<"U", "k", "r", "a", "i", "n", "i", "a", "n">>),
     Lang("ur", <<"U", "r", "d", "u">>),
     Lang("ug", <<"U", "y", "g", "h", "u", "r">>),
     Lang("uz", <<"U", "z", "b", "e", "k">>),
     Lang("vi", <<"V", "i", "e", "t", "n", "a", "m", "e", "s", "e">>),
     Lang("cy", <<"W", "e", "l", "s", "h">>),
     Lang("xh", <<"X", "h", "o", "s", "a">>),
     Lang("yi", <<"Y", "i", "d", "d", "i", "s", "h">>),
     Lang("yo", <<"Y", "o", "r", "u", "b", "a">>),
     Lang("zu", <<"Z", "u", "l", "u">>)
    >>

\* A language name, or null where a name was expected.
LangName(s) == [def |-> TRUE, s |-> s]
LangNoName == [def |-> FALSE, s |-> <<>>]

UpperLetters == <<"A", "B", "C", "D", "E", "F", "G", "H", "I", "J", "K", "L", "M", "N", "O", "P", "Q", "R", "S", "T", "U", "V", "W", "X", "Y", "Z">>
LowerLetters == <<"a", "b", "c", "d", "e", "f", "g", "h", "i", "j", "k", "l", "m", "n", "o", "p", "q", "r", "s", "t", "u", "v", "w", "x", "y", "z">>

\* String.prototype.toLowerCase, for the characters of the table and of the
\* names asked for.
toLowerCase(s) ==
    [i \in 1..Len(s) |->
        IF \E k \in 1..Len(UpperLetters) : UpperLetters[k] = s[i]
        THEN LowerLetters[CHOOSE k \in 1..Len(UpperLetters) : UpperLetters[k] = s[i]]
        ELSE s[i]]

\* String.prototype.toUpperCase (used for the names asked for).
toUpperCase(s) ==
    [i \in 1..Len(s) |->
        IF \E k \in 1..Len(LowerLetters) : LowerLetters[k] = s[i]
        THEN UpperLetters[CHOOSE k \in 1..Len(LowerLetters) : LowerLetters[k] = s[i]]
        ELSE s[i]]

\* Array.prototype.find: of the indices whose elements satisfy the test, the
\* first; 0 when there is none.
FindIndex(hits) ==
    IF hits = {} THEN 0 ELSE CHOOSE i \in hits : \A j \in hits : i <= j

\* Translate.getLanguageName(code)
getLanguageName(code) ==
    LET language == FindIndex({i \in 1..Len(SUPPORTED_LANGUAGES) :
                                   SUPPORTED_LANGUAGES[i].code = code})
    IN  IF language # 0 THEN LangName(SUPPORTED_LANGUAGES[language].name) ELSE LangNoName

\* Translate.getLanguageCode(name)
getLanguageCode(name) ==
    LET language == FindIndex({i \in 1..Len(SUPPORTED_LANGUAGES) :
                                   toLowerCase(SUPPORTED_LANGUAGES[i].name) = toLowerCase(name)})
    IN  IF language # 0 THEN JsStr(SUPPORTED_LANGUAGES[language].code) ELSE JsNoStr

\* The codes asked for: those of the table, one in capitals and one that is
\* no code.
LookupCodes ==
    {SUPPORTED_LANGUAGES[i].code : i \in 1..Len(SUPPORTED_LANGUAGES)} \cup {"EN", "xx"}

\* Names asked for that no lookup produced.
NameUnknownLanguage == <<"U", "n", "k", "n", "o", "w", "n", " ", "L", "a", "n", "g", "u", "a", "g", "e">>
NameSpanishLower == <<"s", "p", "a", "n", "i", "s", "h">>
NameChineseSimplified == <<"C", "h", "i", "n", "e", "s", "e", " ", "(", "S", "i", "m", "p", "l", "i", "f", "i", "e", "d", ")">>
TypedNames == {NameUnknownLanguage, NameSpanishLower, NameChineseSimplified, <<>>}

\* The spellings in which a name that was looked up is handed back.
Spellings == {"same", "lower", "upper"}
Spelt(name, spelling) ==
    CASE spelling = "lower" -> toLowerCase(name)
      [] spelling = "upper" -> toUpperCase(name)
      [] OTHER -> name

\* Translate.getLanguageName(code) is called.
GetLanguageName(code) ==
    /\ lookupName = <<>>
    /\ lookupCode' = code
    /\ lookupName' = <<getLanguageName(code)>>
    /\ UNCHANGED <<queryName, queryCode, dlVars, urlVars, cookieVars, quoteVars,
                   ytVars, tkVars, btVars>>

\* Translate.getLanguageCode is called with the name the lookup gave, in
\* one of the spellings.
GetLanguageCodeOfName(spelling) ==
    /\ lookupName # <<>>
    /\ lookupName[1].def
    /\ queryCode = <<>>
    /\ queryName' = <<Spelt(lookupName[1].s, spelling)>>
    /\ queryCode' = <<getLanguageCode(Spelt(lookupName[1].s, spelling))>>
    /\ UNCHANGED <<lookupCode, lookupName, dlVars, urlVars, cookieVars, quoteVars,
                   ytVars, tkVars, btVars>>

\* Translate.getLanguageCode is called with a name typed in.
GetLanguageCode(name) ==
    /\ queryCode = <<>>
    /\ queryName' = <<name>>
    /\ queryCode' = <<getLanguageCode(name)>>
    /\ UNCHANGED <<lookupCode, lookupName, dlVars, urlVars, cookieVars, quoteVars,
                   ytVars, tkVars, btVars>>

InitLang ==
    /\ callers = {}
    /\ DownloadIdle /\ UrlIdle /\ CookiesIdle /\ QuotesIdle
    /\ YoutubeIdle /\ TiktokIdle /\ BatchIdle /\ LangIdle

NextLang ==
    \/ \E code \in LookupCodes : GetLanguageName(code)
    \/ \E spelling \in Spellings : GetLanguageCodeOfName(spelling)
    \/ \E name \in TypedNames : GetLanguageCode(name)

SpecLang == InitLang /\ [][NextLang]_vars

(***************************************************************************)
(* Properties of extractTrackId and extractCookies                         *)
(***************************************************************************)

UrlIntlTrackQuery == SpotifyHost \o IntlIdSegment \o TrackMarker \o TrackAbc \o QuerySi

\* The number of positions at which pat occurs in s.
Occurrences(s, pat) == Cardinality({i \in 1..Len(s) : OccursAt(s, pat, i)})

\* The text of s after its first "track/" up to the next "?" (or the end).
AfterMarkerBeforeQuery(s) ==
    LET from == IndexOf(s, TrackMarker) + Len(TrackMarker)
        stops == {i \in from..Len(s) : s[i] = "?"}
        to == IF stops = {} THEN Len(s)
              ELSE (CHOOSE i \in stops : \A j \in stops : i <= j) - 1
    IN  SubSeq(s, from, to)

\* C9: extractTrackId gives the same result for a URL and for that URL with
\* the segment "intl-id/" put in; for ".../track/ABC123?si=xyz" and
\* ".../intl-id/track/ABC123?si=xyz" the result is "ABC123"; and for a URL
\* with one "track/" the id is the text between it and the next "?".
C9_SameIdWithAndWithoutLocale ==
    /\ (idPlain.done /\ idIntl.done) => idIntl = idPlain
    /\ (idPlain.done /\ urlPlain = UrlTrack) => idPlain = Ok(TrackAbc)
    /\ (idIntl.done /\ urlIntl = UrlIntlTrackQuery) => idIntl = Ok(TrackAbc)
    /\ (idPlain.done /\ Occurrences(urlPlain, TrackMarker) = 1)
          => idPlain = Ok(AfterMarkerBeforeQuery(urlPlain))

C9_Witness ==
    /\ urlPlain = UrlTrack
    /\ urlIntl = UrlIntlTrackQuery
    /\ idPlain.done /\ idPlain.ok
    /\ idIntl.done /\ idIntl.ok

\* The part of a set-cookie entry before its first ";".
BeforeFirstSemicolon(entry) ==
    LET stops == {i \in 1..Len(entry) : entry[i] = ";"}
    IN  IF stops = {} THEN entry
        ELSE SubSeq(entry, 1, (CHOOSE i \in stops : \A j \in stops : i <= j) - 1)

\* Where the i-th fragment starts in the joined string (0-based offset).
RECURSIVE FragmentOffset(_, _)
FragmentOffset(entries, i) ==
    IF i = 1 THEN 0
    ELSE FragmentOffset(entries, i - 1)
         + Len(BeforeFirstSemicolon(entries[i - 1])) + Len(CookieSeparator)

\* C10: for a set-cookie header of N entries extractCookies returns the N
\* fragments (each the part of its entry before the first ";") in the
\* original order with "; " between neighbours and nothing else; for an
\* absent header or zero entries it returns the empty string.
C10_CookieFragmentsJoined ==
    cookieOut # Undefined =>
        LET es == hdr.entries
            N == Len(es)
            frag(i) == BeforeFirstSemicolon(es[i])
            off(i) == FragmentOffset(es, i)
        IN  IF ~hdr.present \/ N = 0 THEN cookieOut = <<>>
            ELSE /\ Len(cookieOut) = off(N) + Len(frag(N))
                 /\ \A i \in 1..N :
                        SubSeq(cookieOut, off(i) + 1, off(i) + Len(frag(i))) = frag(i)
                 /\ \A i \in 1..(N - 1) :
                        SubSeq(cookieOut, off(i) + Len(frag(i)) + 1, off(i + 1))
                            = CookieSeparator

C10_Witness ==
    /\ hdr = Headers(TRUE, <<SessionCookieEntry, TokenCookieEntry>>)
    /\ cookieOut = <<"s","e","s","s","i","o","n","=","a","b","c",";"," ",
                     "t","o","k","e","n","=","x","y","z">>

(***************************************************************************)
(* Properties of download()                                                *)
(***************************************************************************)

\* Invocation r has sent the request that the method `name` sends.
Issued(r, name) == \E i \in 1..Len(requests[r]) : requests[r][i].name = name

\* Invocation r has entered stage s.
Entered(r, s) == \E i \in 1..Len(stages[r]) : stages[r][i] = s

\* download() threw the wrapped error whose cause has the message msg.
FailedWith(r, msg) ==
    /\ pc[r] = "Failed"
    /\ outcome[r] = Thrown(MkError("Error", ErrorPrefix \o msg))

\* The promise of the fetcher called f in the history `settled`.
FetcherPromise(r, f) == IF f = "page" THEN pageP[r] ELSE infoP[r]

\* The fetcher of invocation r that rejected first.
FirstRejected(r) ==
    LET rej == {i \in 1..Len(settled[r]) :
                   FetcherPromise(r, settled[r][i]).state = "rejected"}
    IN  settled[r][CHOOSE i \in rej : \A j \in rej : i <= j]

AnyRejected(r) == pageP[r].state = "rejected" \/ infoP[r].state = "rejected"

\* C1: when the join has fulfilled and the intermediary page has no
\* csrf-token meta tag, download() has failed with the wrapped cause
\* "CSRF token not found" and has sent no authorize POST.
C1_NoTokenFailsWithoutPost ==
    \A r \in Runs :
        (/\ allP[r].state = "fulfilled"
         /\ pageP[r].state = "fulfilled"
         /\ ~pageP[r].value.data.meta)
        => /\ FailedWith(r, "CSRF token not found")
           /\ caught[r] = MkError("Error", "CSRF token not found")
           /\ ~Issued(r, "downloadTrack")

C1_Witness ==
    \E r \in Runs :
        /\ allP[r].state = "fulfilled"
        /\ pageP[r].state = "fulfilled"
        /\ ~pageP[r].value.data.meta
        /\ infoP[r].value = ShapeOfYou
        /\ pc[r] = "Failed"

\* C2: when one fetcher has rejected and the other has resolved, in either
\* order, download() has failed with the rejecting fetcher's error as cause
\* and has sent no authorize POST.
C2_OneFetcherRejects ==
    \A r \in Runs :
        /\ (pageP[r].state = "rejected" /\ infoP[r].state = "fulfilled")
            => /\ FailedWith(r, pageP[r].reason.message)
               /\ ~Issued(r, "downloadTrack")
        /\ (pageP[r].state = "fulfilled" /\ infoP[r].state = "rejected")
            => /\ FailedWith(r, infoP[r].reason.message)
               /\ ~Issued(r, "downloadTrack")

\* The other fetcher resolved first, then the page fetch rejected.
C2_Witness ==
    \E r \in Runs :
        /\ settled[r] = <<"info", "page">>
        /\ infoP[r].state = "fulfilled"
        /\ pageP[r].state = "rejected"
        /\ pc[r] = "Failed"

\* C3: when the authorize response has erorr = true, whatever its url,
\* download() has failed with the wrapped cause "Data not found" and has
\* returned nothing.
C3_ErorrFlagFails ==
    \A r \in Runs :
        (postP[r].state = "fulfilled" /\ postP[r].value.hasErorr /\ postP[r].value.erorr)
        => /\ FailedWith(r, "Data not found")
           /\ outcome[r].kind # "returned"

C3_Witness ==
    \E r \in Runs :
        /\ postP[r].state = "fulfilled"
        /\ postP[r].value = DownSpotify(TRUE, TRUE, CdnUrl)
        /\ pc[r] = "Failed"

\* C4: download() returns a result only when the authorize response's
\* erorr flag is not set and its url is present and not empty.
C4_ResultOnlyWithUsableUrl ==
    \A r \in Runs :
        outcome[r].kind = "returned"
        => /\ ~(postP[r].value.hasErorr /\ postP[r].value.erorr)
           /\ postP[r].value.url.def
           /\ postP[r].value.url.s # ""

\* The error that made invocation r fail, read off the promises and the
\* stages reached (not off what the catch clause recorded).
OriginalCause(r) ==
    IF ~Entered(r, "FetchingConcurrently")
        THEN TypeErrorReading("undefined", "split")
    ELSE IF ~Entered(r, "ExtractingSession")
        THEN FetcherPromise(r, FirstRejected(r)).reason
    ELSE IF ~Entered(r, "Authorizing")
        THEN IF Falsy(extractCsrfToken(pageP[r].value.data))
             THEN MkError("Error", "CSRF token not found")
             ELSE TypeErrorReading("undefined", "image")
    ELSE IF postP[r].state = "rejected" THEN postP[r].reason
    ELSE MkError("Error", "Data not found")

\* C5: every failure of download() reaches the caller as one error of the
\* class Error whose message is the fixed prefix followed by the message of
\* the original cause, and once thrown it is not replaced.
C5_OneWrappedError ==
    /\ [](\A r \in Runs :
            pc[r] = "Failed"
            => /\ outcome[r].kind = "thrown"
               /\ outcome[r].error.name = "Error"
               /\ outcome[r].error.message = ErrorPrefix \o OriginalCause(r).message
               /\ caught[r] = OriginalCause(r))
    /\ [][\A r \in Runs :
            outcome[r].kind = "thrown" => outcome'[r] = outcome[r]]_vars

\* A transport error of the authorize POST was wrapped.
C5_Witness ==
    \E r \in Runs :
        /\ pc[r] = "Failed"
        /\ postP[r].state = "rejected"
        /\ outcome[r].error.message = ErrorPrefix \o "Network Error"

StageOrder ==
    <<"ExtractingId", "FetchingConcurrently", "ExtractingSession", "Authorizing", "Done">>

\* C6: the stages are entered in the order ExtractingId,
\* FetchingConcurrently, ExtractingSession, Authorizing, Done, with Failed
\* only as the last one; the session is extracted and the authorize POST
\* sent only after both fetchers resolved and (for the POST) a token was
\* extracted; a result is returned only after the authorize response; and a
\* failed invocation enters no further stage and sends nothing more.
C6_StageOrder ==
    /\ [](\A r \in Runs :
            /\ \E k \in 0..Len(StageOrder) :
                   \/ stages[r] = SubSeq(StageOrder, 1, k)
                   \/ /\ k \in 1..3
                      /\ stages[r] = Append(SubSeq(StageOrder, 1, k), "Failed")
                   \/ /\ k = 4
                      /\ stages[r] = Append(SubSeq(StageOrder, 1, k), "Failed")
                      /\ postP[r].state # "pending"
            /\ Entered(r, "ExtractingSession")
                   => pageP[r].state = "fulfilled" /\ infoP[r].state = "fulfilled"
            /\ Issued(r, "downloadTrack")
                   => /\ pageP[r].state = "fulfilled" /\ infoP[r].state = "fulfilled"
                      /\ Entered(r, "Authorizing")
                      /\ ~Falsy(csrf[r])
                      /\ csrf[r] = pageP[r].value.data.content
            /\ Entered(r, "Authorizing") => Issued(r, "downloadTrack")
            /\ outcome[r].kind = "returned"
                   => postP[r].state = "fulfilled" /\ Entered(r, "Done"))
    /\ [][\A r \in Runs :
            pc[r] = "Failed"
            => /\ pc'[r] = pc[r]
               /\ stages'[r] = stages[r]
               /\ requests'[r] = requests[r]
               /\ outcome'[r] = outcome[r]]_vars

\* A run that went through every stage.
C6_Witness ==
    \E r \in Runs : stages[r] = StageOrder /\ outcome[r].kind = "returned"

\* C7: as soon as a fetcher has rejected, download() has failed with the
\* error of the fetcher that rejected first as cause, also while the other
\* fetcher is still pending; what the other fetcher does later changes
\* neither the outcome nor the requests sent, and no authorize POST is sent.
C7_FirstFailureWins ==
    /\ [](\A r \in Runs :
            AnyRejected(r)
            => /\ allP[r] = Rejected(<<>>, FetcherPromise(r, FirstRejected(r)).reason)
               /\ FailedWith(r, FetcherPromise(r, FirstRejected(r)).reason.message)
               /\ ~Issued(r, "downloadTrack"))
    /\ [][\A r \in Runs :
            AnyRejected(r)
            => /\ outcome'[r] = outcome[r]
               /\ requests'[r] = requests[r]
               /\ pc'[r] = pc[r]]_vars

\* Both fetchers rejected, the metadata fetch first, and its error is the
\* one reported.
C7_Witness ==
    \E r \in Runs :
        /\ settled[r] = <<"info", "page">>
        /\ infoP[r].state = "rejected"
        /\ pageP[r].state = "rejected"
        /\ FailedWith(r, "Request failed with status code 500")

\* C8: when the URL passed to download() does not contain "track/", the
\* invocation fails in id extraction with a wrapped error and sends no
\* request at all.
C8_NoMarkerFailsBeforeAnyRequest ==
    \A r \in Runs :
        (pc[r] # "Idle" /\ IndexOf(url[r], TrackMarker) = 0)
        => /\ stages[r] = <<"ExtractingId", "Failed">>
           /\ outcome[r].kind = "thrown"
           /\ outcome[r].error.name = "Error"
           /\ requests[r] = <<>>

\* The requests of invocation r that the method `name` sent.
RequestsOf(r, name) == {i \in 1..Len(requests[r]) : requests[r][i].name = name}

\* The intermediary page carries a csrf-token meta tag with a non-empty content.
TokenPresent(page) == page.data.meta /\ page.data.hasContent /\ page.data.content # <<>>

\* C11: when both fetchers have fulfilled (the metadata one with a metadata
\* record), the page carries a token and its response has no set-cookie
\* header, download() has sent the authorize POST with an empty Cookie
\* value, and the missing header is not what it reports as a failure: it is
\* waiting for the POST, done, or failed on the POST's own answer.
C11_NoCookieHeaderStillAuthorizes ==
    \A r \in Runs :
        (/\ pageP[r].state = "fulfilled"
         /\ infoP[r].state = "fulfilled"
         /\ infoP[r].value.def
         /\ TokenPresent(pageP[r].value)
         /\ ~pageP[r].value.headers.present)
        => /\ cookies[r] = <<>>
           /\ Cardinality(RequestsOf(r, "downloadTrack")) = 1
           /\ \A i \in RequestsOf(r, "downloadTrack") : requests[r][i].auth.cookie = <<>>
           /\ pc[r] \in {"Authorizing", "Done", "Failed"}
           /\ pc[r] = "Failed"
                => \/ postP[r].state = "rejected"
                   \/ postP[r].state = "fulfilled" /\ postP[r].value.erorr

\* The page had no set-cookie header and the invocation reached Done.
C11_Witness ==
    \E r \in Runs :
        /\ pageP[r].state = "fulfilled"
        /\ ~pageP[r].value.headers.present
        /\ TokenPresent(pageP[r].value)
        /\ pc[r] = "Done"
        /\ outcome[r] = Returned(ShapeOfYou, CdnUrl)
        /\ requests[r][3].auth.cookie = <<>>

\* C12: an invocation sends each of its three requests at most once; once it
\* has failed it sends nothing more, stays failed and keeps its outcome, so
\* it never produces a result.
C12_NoRetryFailedIsTerminal ==
    /\ [](\A r \in Runs :
            /\ \A name \in {"fetchTrackPage", "fetchTrackInfo", "downloadTrack"} :
                   Cardinality(RequestsOf(r, name)) <= 1
            /\ pc[r] = "Failed" => outcome[r].kind = "thrown")
    /\ [][\A r \in Runs :
            pc[r] = "Failed"
            => /\ pc'[r] = "Failed"
               /\ outcome'[r] = outcome[r]
               /\ requests'[r] = requests[r]]_vars

\* The authorize POST was sent once and rejected, and the invocation failed
\* with three requests sent in all.
C12_Witness ==
    \E r \in Runs :
        /\ pc[r] = "Failed"
        /\ postP[r].state = "rejected"
        /\ Len(requests[r]) = 3
        /\ Cardinality(RequestsOf(r, "downloadTrack")) = 1

ConvertUrl ==
    <<"h","t","t","p","s",":","/","/","s","p","o","w","l","o","a","d",".","c","o","m",
      "/","c","o","n","v","e","r","t">>
SessionAbc == <<"s","e","s","s","i","o","n","=","a","b","c">>
OpenSpotifyTrack ==
    <<"h","t","t","p","s",":","/","/","o","p","e","n",".","s","p","o","t","i","f","y",
      ".","c","o","m","/","t","r","a","c","k","/">>

\* C14: every authorize POST of an invocation goes to {base}/convert with the
\* body {urls: "https://open.spotify.com/track/" + the id extracted from the
\* invocation's URL, cover: the image of the metadata this invocation
\* fetched}, the X-CSRF-TOKEN header being the token extracted from this
\* invocation's page and the Cookie header the cookie string extracted from
\* the same response.
C14_AuthorizeRequestShape ==
    \A r \in Runs : \A i \in RequestsOf(r, "downloadTrack") :
        LET q == requests[r][i]
        IN  /\ q.method = "POST"
            /\ q.url = ConvertUrl
            /\ pageP[r].state = "fulfilled" /\ infoP[r].state = "fulfilled"
            /\ q.body.urls = OpenSpotifyTrack \o extractTrackId(url[r]).value
            /\ url[r] \in {UrlTrack, UrlIntlTrack}
                 => q.body.urls = OpenSpotifyTrack \o <<"A","B","C","1","2","3">>
            /\ q.body.cover = infoP[r].value.image
            /\ q.auth.csrfToken = extractCsrfToken(pageP[r].value.data)
            /\ q.auth.csrfToken = pageP[r].value.data.content
            /\ q.auth.cookie = extractCookies(pageP[r].value.headers)

\* A POST sent for the locale URL with two cookies on the page.
C14_Witness ==
    \E r \in Runs :
        /\ url[r] = UrlIntlTrack
        /\ pageP[r].state = "fulfilled"
        /\ Len(pageP[r].value.headers.entries) = 2
        /\ Len(requests[r]) = 3
        /\ requests[r][3].name = "downloadTrack"
        /\ requests[r][3].auth.csrfToken = Tok123
        /\ requests[r][3].auth.cookie # Tok123
        /\ requests[r][3].body.cover = "https://img/x.jpg"

\* C15: an invocation that is done has returned exactly the pair of the
\* result field of the metadata API's body and the url of the authorize
\* response, both unmodified; in the documented scenario (track
\* 4iV5W9uYEdYUVa79Axb7Rh, cookie "session=abc", token "tok123", the Shape of
\* You metadata, authorize response with the flag false and url
\* "https://cdn/x.mp3") the result carries that metadata and that url.
C15_ReturnsMetadataAndUrl ==
    \A r \in Runs :
        /\ pc[r] = "Done"
            => /\ infoData[r] # <<>> /\ postP[r].state = "fulfilled"
               /\ outcome[r].kind = "returned"
               /\ outcome[r].info = infoData[r][1].result
               /\ outcome[r].url = postP[r].value.url
               /\ outcome[r].error = NoError
        /\ (/\ url[r] = UrlShapeOfYou
            /\ pageP[r].state = "fulfilled"
            /\ pageP[r].value.headers = Headers(TRUE, <<SessionCookieEntry>>)
            /\ pageP[r].value.data = Html(TRUE, TRUE, Tok123)
            /\ infoData[r] = <<InfoBody(FALSE, TRUE, ShapeOfYou)>>
            /\ postP[r].state = "fulfilled"
            /\ postP[r].value = DownSpotify(TRUE, FALSE, CdnUrl))
            => /\ pc[r] = "Done"
               /\ requests[r][3].auth.cookie = SessionAbc
               /\ outcome[r].info =
                      [def |-> TRUE, id |-> "4iV5W9uYEdYUVa79Axb7Rh",
                       name |-> "Shape of You", artists |-> "Ed Sheeran",
                       image |-> "https://img/x.jpg", duration_ms |-> 233713]
               /\ outcome[r].url = JsStr("https://cdn/x.mp3")

\* The documented scenario has run to its end.
C15_Witness ==
    \E r \in Runs :
        /\ url[r] = UrlShapeOfYou
        /\ trackId[r] = TrackShapeOfYou
        /\ cookies[r] = SessionAbc
        /\ csrf[r] = Tok123
        /\ infoData[r] = <<InfoBody(FALSE, TRUE, ShapeOfYou)>>
        /\ postP[r] = Fulfilled(DownSpotify(TRUE, FALSE, CdnUrl))
        /\ pc[r] = "Done"

\* C16: when the metadata API has answered 2xx with an envelope that has no
\* result field, fetchTrackInfo has rejected, and download() has failed
\* on the join without entering session extraction and without sending the
\* authorize POST.
C16_MalformedMetadataFailsInFetch ==
    \A r \in Runs :
        (infoData[r] # <<>> /\ ~infoData[r][1].isNull /\ ~infoData[r][1].hasResult)
        => /\ infoP[r].state = "rejected"
           /\ pc[r] = "Failed"
           /\ ~Entered(r, "ExtractingSession")
           /\ ~Issued(r, "downloadTrack")

\* The invocation other than r.
Other(r) == CHOOSE o \in Runs : o # r

\* C13: of two invocations, however their responses interleave, each sends
\* the page GET for its own track; the token and the cookie of its authorize
\* POST are those of the page response it received itself, the cover is the
\* image of its own metadata, and the metadata of its result is the one its
\* own metadata GET delivered; whenever the other invocation received
\* something different, that is not what this invocation sent or returned.
C13_InvocationsIsolated ==
    \A r \in Runs :
        /\ Issued(r, "fetchTrackPage")
            => requests[r][1].url =
                  BaseUrl \o <<"/","s","p","o","t","i","f","y","/","t","r","a","c","k","-">>
                          \o AfterMarkerBeforeQuery(url[r])
        /\ \A i \in RequestsOf(r, "downloadTrack") :
              LET q == requests[r][i]
                  mine == pageP[r].value
                  theirs == pageP[Other(r)].value
              IN  /\ pageP[r].state = "fulfilled"
                  /\ q.auth.csrfToken = mine.data.content
                  /\ q.auth.cookie = BeforeFirstSemicolon(mine.headers.entries[1])
                  /\ q.body.cover = infoData[r][1].result.image
                  /\ q.body.urls = OpenSpotifyTrack \o AfterMarkerBeforeQuery(url[r])
                  /\ (pageP[Other(r)].state = "fulfilled" /\ theirs # mine)
                       => /\ q.auth.csrfToken # theirs.data.content
                          /\ q.auth.cookie # BeforeFirstSemicolon(theirs.headers.entries[1])
        /\ outcome[r].kind = "returned"
            => /\ outcome[r].info = infoData[r][1].result
               /\ outcome[r].url = postP[r].value.url
               /\ (infoData[Other(r)] # <<>> /\ infoData[Other(r)] # infoData[r])
                    => outcome[r].info # infoData[Other(r)][1].result

\* Both invocations are done, each with its own track, token, cookie,
\* metadata and asset url.
C13_Witness ==
    /\ pc = [r \in Runs |-> "Done"]
    /\ url["r1"] = UrlShapeOfYou /\ url["r2"] = UrlTrack
    /\ requests["r1"][3].auth = [csrfToken |-> Tok456, cookie |-> <<"t","o","k","e","n","=","x","y","z">>]
    /\ requests["r2"][3].auth = [csrfToken |-> Tok123, cookie |-> SessionAbc]
    /\ outcome["r1"] = Returned(Perfect, CdnUrl)
    /\ outcome["r2"] = Returned(ShapeOfYou, CdnUrlY)

\* C27: no authorize POST carries an empty or undefined token; when both
\* fetchers have fulfilled and the page has a csrf-token meta tag whose
\* content attribute is empty or missing, download() has failed with the
\* wrapped cause "CSRF token not found" and has sent no POST.
C27_EmptyTokenIsMissing ==
    \A r \in Runs :
        /\ \A i \in RequestsOf(r, "downloadTrack") :
               /\ requests[r][i].auth.csrfToken # <<>>
               /\ requests[r][i].auth.csrfToken # Undefined
        /\ (/\ allP[r].state = "fulfilled"
            /\ pageP[r].value.data.meta
            /\ \/ ~pageP[r].value.data.hasContent
               \/ pageP[r].value.data.content = <<>>)
            => /\ FailedWith(r, "CSRF token not found")
               /\ caught[r] = MkError("Error", "CSRF token not found")
               /\ ~Issued(r, "downloadTrack")

\* The page had <meta name="csrf-token" content="">, the metadata arrived,
\* and the invocation failed.
C27_Witness ==
    \E r \in Runs :
        /\ allP[r].state = "fulfilled"
        /\ pageP[r].value.data = Html(TRUE, TRUE, <<>>)
        /\ infoP[r].value = ShapeOfYou
        /\ csrf[r] = <<>>
        /\ pc[r] = "Failed"
        /\ Len(requests[r]) = 2

\* C30: an invocation whose id extraction succeeded has sent the page GET
\* and the metadata GET, in that order, whatever became of either; the two
\* are sent in the same step, at the end of which both promises are still
\* pending, so neither request waits for the other's outcome.
C30_BothFetchersIssued ==
    /\ [](\A r \in Runs :
            (pc[r] # "Idle" /\ extractTrackId(url[r]).ok)
            => /\ Len(requests[r]) >= 2
               /\ requests[r][1].name = "fetchTrackPage"
               /\ requests[r][2].name = "fetchTrackInfo"
               /\ Cardinality(RequestsOf(r, "fetchTrackPage")) = 1
               /\ Cardinality(RequestsOf(r, "fetchTrackInfo")) = 1)
    /\ [][\A r \in Runs :
            (requests[r] = <<>> /\ requests'[r] # <<>>)
            => /\ Len(requests'[r]) = 2
               /\ requests'[r][1].name = "fetchTrackPage"
               /\ requests'[r][2].name = "fetchTrackInfo"
               /\ pageP'[r].state = "pending"
               /\ infoP'[r].state = "pending"]_vars

\* The page GET was rejected while the metadata GET was still pending:
\* both had been sent.
C30_Witness ==
    \E r \in Runs :
        /\ settled[r] = <<"page">>
        /\ pageP[r].state = "rejected"
        /\ infoP[r].state = "pending"
        /\ pc[r] = "Failed"
        /\ Len(requests[r]) = 2
        /\ requests[r][2].name = "fetchTrackInfo"

(***************************************************************************)
(* Properties of the quote scraper                                         *)
(***************************************************************************)

\* The text has a character that is not white space.
HasVisible(s) == \E i \in 1..Len(s) : s[i] \notin WhiteSpace

\* An attribute that exists and is not the empty string.
Present(a) == a # Undefined /\ a # <<>>

\* The text without the white space around it.
RECURSIVE Stripped(_)
Stripped(s) ==
    IF Len(s) = 0 THEN s
    ELSE IF Head(s) \in WhiteSpace THEN Stripped(Tail(s))
    ELSE IF s[Len(s)] \in WhiteSpace THEN Stripped(SubSeq(s, 1, Len(s) - 1))
    ELSE s

\* A block whose character, anime, quote and link are all non-empty.
Accepted(b) ==
    /\ HasVisible(b.charName)
    /\ HasVisible(b.animeTitle)
    /\ HasVisible(b.quoteText)
    /\ Present(b.href)

\* The accepted blocks of the page that was fetched, in document order.
AcceptedBlocks == SelectSeq(quotePageP.value, Accepted)

IsAbsoluteUrl(u) ==
    \/ startsWith(u, <<"h","t","t","p",":","/","/">>)
    \/ startsWith(u, <<"h","t","t","p","s",":","/","/">>)

\* C17: once the page is fetched, parsing raises no error, every record of
\* the output has a non-empty character, anime, quote and link, and the
\* output has exactly one record for each block whose four required fields
\* are non-empty after extraction: a block lacking one of them (its link,
\* say) has no record.
C17_AcceptedIffFourFields ==
    quotePageP.state = "fulfilled"
    => /\ quoteOutcome.kind # "thrown"
       /\ \A k \in 1..Len(quotes) :
              /\ Present(quotes[k].character)
              /\ Present(quotes[k].anime)
              /\ Present(quotes[k].quote)
              /\ Present(quotes[k].link)
       /\ Len(quotes) = Len(AcceptedBlocks)
       /\ \A k \in 1..Len(quotes) :
              /\ quotes[k].character = Stripped(AcceptedBlocks[k].charName)
              /\ quotes[k].anime = Stripped(AcceptedBlocks[k].animeTitle)
              /\ quotes[k].quote = Stripped(AcceptedBlocks[k].quoteText)

\* A page of a block without a.kuroi, a complete block and a block with an
\* empty href gave the one record of the complete block.
C17_Witness ==
    /\ quotePageP.state = "fulfilled"
    /\ Len(quotePageP.value) = 3
    /\ quotePageP.value[1].href = Undefined
    /\ Accepted(quotePageP.value[2])
    /\ quotePageP.value[3].href = <<>>
    /\ Len(quotes) = 1
    /\ quoteOutcome = QuoteReturned("list", quotes)

\* C18: whether a block is accepted depends on neither its image nor its
\* episode; the record of an accepted block carries the block's image
\* attribute as it is (absent when the block has none), and as episode the
\* block's episode text without surrounding white space, or "Unknown" when
\* that text is empty.
C18_ImageAndEpisodeOptional ==
    quotePageP.state = "fulfilled"
    => /\ Len(quotes) = Len(AcceptedBlocks)
       /\ \A k \in 1..Len(quotes) :
              LET b == AcceptedBlocks[k]
              IN  /\ quotes[k].image = b.dataSrc
                  /\ quotes[k].episode =
                        (IF HasVisible(b.meta) THEN Stripped(b.meta)
                         ELSE <<"U","n","k","n","o","w","n">>)

\* Three records: one without image, one whose episode became "Unknown",
\* one that kept its episode "Ep 1".
C18_Witness ==
    /\ quotePageP.state = "fulfilled"
    /\ Len(quotePageP.value) = 3 /\ Len(quotes) = 3
    /\ quotePageP.value[1].dataSrc = Undefined /\ quotes[1].image = Undefined
    /\ quotePageP.value[2].meta = <<>> /\ quotes[2].episode = UnknownEpisode
    /\ quotes[2].image = ImageSrc
    /\ quotes[3].episode = <<"E","p"," ","1">>

\* C19: the link of every record is an absolute URL: the link of a block
\* that is an absolute URL already is kept, and any other link has the base
\* URL put in front of it.
C19_LinksAbsolutized ==
    (quotePageP.state = "fulfilled" /\ Len(quotes) = Len(AcceptedBlocks))
    => \A k \in 1..Len(quotes) :
          LET href == AcceptedBlocks[k].href
          IN  /\ IsAbsoluteUrl(quotes[k].link)
              /\ IsAbsoluteUrl(href) => quotes[k].link = href
              /\ ~IsAbsoluteUrl(href) => quotes[k].link = QuoteBaseUrl \o href

\* C20: when the fetch of getRandomQuote has succeeded, the call has not
\* thrown; if parseQuotes gave records for the page, the index computed is
\* within [0, length) and the call returned the record at that index, a
\* member of the array; if it gave none, the call returned null.
C20_RandomQuoteIsMemberOrNull ==
    (quoteCall = "getRandomQuote" /\ quotePageP.state = "fulfilled")
    => /\ quotes = parseQuotes(quotePageP.value)
       /\ quoteOutcome.kind # "thrown"
       /\ quotes # <<>>
            => /\ quoteOutcome.kind = "quote"
               /\ randomIndex \in 0..(Len(quotes) - 1)
               /\ quoteOutcome.value = <<quotes[randomIndex + 1]>>
               /\ \E i \in 1..Len(quotes) : quoteOutcome.value = <<quotes[i]>>
       /\ quotes = <<>>
            => quoteOutcome = QuoteReturned("null", <<>>)

\* Of three records the last one was returned.
C20_Witness ==
    /\ quoteCall = "getRandomQuote"
    /\ quotePc = "Done"
    /\ Len(quotes) = 3
    /\ randomIndex = 2
    /\ quoteOutcome = QuoteReturned("quote", <<quotes[3]>>)

C21_WitnessEmptyList ==
    /\ quoteCall = "getAllQuotes"
    /\ quotePageP.state = "fulfilled"
    /\ Len(quotePageP.value) = 3
    /\ quoteOutcome = QuoteReturned("list", <<>>)

\* C28: when the GET of the feed was rejected during getRandomQuote, the
\* call has thrown a ScrapingException with the message "Failed to get
\* random quote" and an undefined statusCode, whose originalError is the
\* ScrapingException of getAllQuotes (which carries the status of the
\* response, if any, and the rejection as its own originalError); what was
\* thrown is never replaced by anything else.
C28_RandomQuoteWrapsOnce ==
    /\ []((quoteCall = "getRandomQuote" /\ quotePageP.state = "rejected")
           => LET outer == quoteOutcome.error
                  cause == quotePageP.reason
              IN  /\ quoteOutcome.kind = "thrown"
                  /\ outer.name = "ScrapingException"
                  /\ outer.message = "Failed to get random quote"
                  /\ outer.statusCode = <<>>
                  /\ Len(outer.originalError) = 1
                  /\ LET inner == outer.originalError[1]
                     IN  /\ inner.name = "ScrapingException"
                         /\ inner.message = "HTTP request failed: " \o cause.message
                         /\ inner.originalError = <<cause>>
                         /\ inner.statusCode =
                               (IF cause.response = <<>> THEN <<>>
                                ELSE <<cause.response[1].status>>))
    /\ [][quoteOutcome.kind = "thrown" => quoteOutcome' = quoteOutcome]_vars

\* The GET was answered with status 503: the status is in the inner
\* exception only.
C28_Witness ==
    /\ quoteCall = "getRandomQuote"
    /\ quotePc = "Failed"
    /\ quoteOutcome.error.statusCode = <<>>
    /\ quoteOutcome.error.originalError[1].statusCode = <<503>>

\* The record that block b gives when it is accepted.
RecordOf(b, q) ==
    /\ q.character = Stripped(b.charName)
    /\ q.anime = Stripped(b.animeTitle)
    /\ q.quote = Stripped(b.quoteText)
    /\ q.episode \in {Stripped(b.meta), <<"U","n","k","n","o","w","n">>}
    /\ q.image = b.dataSrc
    /\ q.link \in {b.href, QuoteBaseUrl \o b.href}

\* C29: the output of parseQuotes is a subsequence of the page's blocks:
\* there is a strictly increasing assignment of the records to blocks, each
\* record being the one its block gives, so the records are in document
\* order, no block gives two records, and there are no more records than
\* blocks (none for a page without blocks).
C29_OutputIsOrderedSubsequence ==
    quotePageP.state = "fulfilled"
    => LET html == quotePageP.value
       IN  /\ Len(quotes) <= Len(html)
           /\ Len(html) = 0 => quotes = <<>>
           /\ \E f \in [1..Len(quotes) -> 1..Len(html)] :
                  /\ \A j, k \in 1..Len(quotes) : j < k => f[j] < f[k]
                  /\ \A k \in 1..Len(quotes) :
                         /\ Accepted(html[f[k]])
                         /\ RecordOf(html[f[k]], quotes[k])

\* The first and the third of three blocks gave two different records, the
\* second block none.
C29_Witness ==
    /\ quotePageP.state = "fulfilled"
    /\ Len(quotePageP.value) = 3
    /\ ~Accepted(quotePageP.value[2])
    /\ Len(quotes) = 2
    /\ quotes[1].link = QuoteBaseUrl \o LinkQuote42
    /\ quotes[2].link = LinkOther
    /\ RecordOf(quotePageP.value[1], quotes[1])
    /\ RecordOf(quotePageP.value[3], quotes[2])

(***************************************************************************)
(* Properties of the YouTube service                                       *)
(***************************************************************************)

\* The method that was called.
YtMethod == IF ytCall = <<>> THEN "none" ELSE ytCall[1].method

\* C22: when downloadToFile has reported success: true with a filePath, the
\* external downloader was invoked for that call, with the output path among
\* its arguments, and that invocation has completed successfully.
C22_SuccessOnlyAfterDownload ==
    (/\ YtMethod = "downloadToFile"
     /\ ytOutcome # <<>>
     /\ ytOutcome[1].state = "fulfilled"
     /\ ytOutcome[1].value[1].success)
    => /\ Len(ytExeca) = 1
       /\ \E i \in 1..Len(ytExeca[1].args) : ytExeca[1].args[i] = ytCall[1].outputPath
       /\ ytP.state = "fulfilled"

TkUsable(body) ==
    /\ body.t = "object"
    /\ body.code = TkNumber(0)
    /\ body.data.t = "object"
    /\ body.data.videos.t = "array"

\* The messages an error caught in searchVideos can carry.
TkCaughtMessages ==
    {e.message : e \in TkAxiosErrors}
    \cup {"Invalid API response", "Invalid API response structure"}

\* C25: searchVideos returns a response only when the request succeeded with
\* a body whose code is the number 0 and whose data.videos is an array, and
\* then returns that body; for a failed request, a missing body, a
\* non-numeric or non-zero code, or a missing or non-array videos field it
\* rejects with an Error whose message starts with
\* "Failed to get results from TikTok API: " and returns nothing.
C25_SearchReturnsOnlyUsableBodies ==
    tkOutcome # <<>> =>
        IF tkP.state = "fulfilled" /\ TkUsable(tkP.value[1])
        THEN tkOutcome[1] = Fulfilled(<<tkP.value[1]>>)
        ELSE /\ tkOutcome[1].state = "rejected"
             /\ tkOutcome[1].value = <<>>
             /\ tkOutcome[1].reason.name = "Error"
             /\ \E m \in TkCaughtMessages :
                   tkOutcome[1].reason.message = TkErrorPrefix \o m

\* A search answered with code 0 and a data object whose videos field is
\* no array has been rejected with the prefixed message.
C25_Witness ==
    /\ tkOutcome # <<>>
    /\ tkP.state = "fulfilled"
    /\ tkP.value[1].t = "object"
    /\ tkP.value[1].code = TkNumber(0)
    /\ tkP.value[1].data.t = "object"
    /\ tkP.value[1].data.videos.t = "object"
    /\ tkOutcome[1].state = "rejected"
    /\ tkOutcome[1].reason.message =
          "Failed to get results from TikTok API: Invalid API response structure"

(***************************************************************************)
(* Properties of Translate.batchTranslate                                  *)
(***************************************************************************)

\* The translation of each text of the batches.
TranslationOf(text) ==
    CASE text = "Hello" -> "Halo"
      [] text = "Good morning. Thank you." -> "Selamat pagi. Terima kasih."
      [] text = "" -> ""

\* The requests that have failed, in the order they failed.
FailedRequests == SelectSeq(btSettled, LAMBDA i : btP[i].state = "rejected")

\* C23: batchTranslate returns an array as long as texts whose i-th element
\* is the translation of texts[i], whatever order the requests complete in;
\* as soon as one translation fails the call is rejected with an Error
\* "Batch translation failed: ..." naming that failure, and no array, partial
\* or not, is returned.  Until then the call has no result.
C23_BatchKeepsInputOrderOrFails ==
    /\ btPc = "Running" =>
          /\ btOutcome = <<>>
          /\ FailedRequests = <<>>
          /\ \E i \in 1..Len(btP) : btP[i].state = "pending"
    /\ btPc = "Done" =>
          /\ btOutcome # <<>>
          /\ IF FailedRequests = <<>>
             THEN /\ \A i \in 1..Len(btP) : btP[i].state = "fulfilled"
                  /\ btOutcome[1].state = "fulfilled"
                  /\ Len(btOutcome[1].value) = Len(btTexts)
                  /\ \A i \in 1..Len(btTexts) :
                        btOutcome[1].value[i] = TranslationOf(btTexts[i])
             ELSE /\ btOutcome[1].state = "rejected"
                  /\ btOutcome[1].value = <<>>
                  /\ btOutcome[1].reason.name = "Error"
                  /\ btOutcome[1].reason.message =
                        "Batch translation failed: "
                        \o btP[FailedRequests[1]].reason.name \o ": "
                        \o btP[FailedRequests[1]].reason.message

\* The requests of a batch of different texts completed last text first, and
\* the array returned is in the order of the texts.
C23_Witness ==
    /\ btPc = "Done"
    /\ btTexts = <<"Hello", "Good morning. Thank you.", "">>
    /\ btSettled = <<3, 2, 1>>
    /\ btOutcome = <<Fulfilled(<<"Halo", "Selamat pagi. Terima kasih.", "">>)>>

(***************************************************************************)
(* Properties of the language table lookups                                *)
(***************************************************************************)

\* The names of the table, in small letters.
KnownNamesLower ==
    {toLowerCase(SUPPORTED_LANGUAGES[i].name) : i \in 1..Len(SUPPORTED_LANGUAGES)}

\* C24: getLanguageCode is the case-insensitive inverse of getLanguageName
\* over the table: the name found for a supported code c, in any spelling of
\* capitals and small letters, gives back c; "Chinese (Simplified)" gives
\* "zh-cn"; a name that is not in the table gives null.
C24_CodeOfNameIsInverse ==
    queryCode # <<>> =>
        /\ (/\ lookupName # <<>>
            /\ lookupName[1].def
            /\ toLowerCase(queryName[1]) = toLowerCase(lookupName[1].s))
              => queryCode[1] = JsStr(lookupCode)
        /\ queryName[1] = NameChineseSimplified => queryCode[1] = JsStr("zh-cn")
        /\ toLowerCase(queryName[1]) \notin KnownNamesLower => queryCode[1] = JsNoStr

====
